---------------------------- MODULE Spec2Model ----------------------------
(***************************************************************************)
(* A model of the transcription / AI script tailoring server.              *)
(*                                                                         *)
(*   src/main.py        _detect_platform, _transcribe_with_retry           *)
(*   src/ai_service.py  AIScriptTailoringService.parse_ai_response and the *)
(*                      repair helpers it calls, call_openai_api,          *)
(*                      generate_tailored_script                           *)
(*   src/main.py        ai_tailor_script, transcribe, CACHE                *)
(*                                                                         *)
(* Python strings are modelled as sequences of one-character strings, so   *)
(* that substring tests, stripping, scanning and decoding are computed     *)
(* character by character as the code computes them.                       *)
(***************************************************************************)
EXTENDS Integers, Sequences, FiniteSets, TLC

VARIABLES
    fetch,      \* the locals of one _transcribe_with_retry invocation
    classify,   \* one _detect_platform call: its argument and its result
    parse,      \* one parse_ai_response call: its argument and its result
    tailor,     \* one POST /api/ai-tailor-script request and its LLM call
    server,     \* the event loop, CACHE, the clock and the POST /transcribe requests
    meta        \* one calculate_metadata call: its arguments and its result

vars == <<fetch, classify, parse, tailor, server, meta>>

-----------------------------------------------------------------------------
(* Python str operations                                                   *)

UpperLetters ==
    <<"A","B","C","D","E","F","G","H","I","J","K","L","M","N","O","P","Q","R","S","T","U","V",
      "W","X","Y","Z">>

LowerLetters ==
    <<"a","b","c","d","e","f","g","h","i","j","k","l","m","n","o","p","q","r","s","t","u","v",
      "w","x","y","z">>

\* str.lower() on one character
LowerChar(c) ==
    IF \E k \in 1..Len(UpperLetters) : UpperLetters[k] = c
    THEN LowerLetters[CHOOSE k \in 1..Len(UpperLetters) : UpperLetters[k] = c]
    ELSE c

\* str.lower()
Lower(s) == [i \in 1..Len(s) |-> LowerChar(s[i])]

\* s[i:].startswith(p), i a 0-based offset
StartsWithAt(s, p, i) ==
    /\ i + Len(p) <= Len(s)
    /\ \A j \in 1..Len(p) : s[i + j] = p[j]

\* p in s
Contains(s, p) == \E i \in 0..(Len(s) - Len(p)) : StartsWithAt(s, p, i)

Max(a, b) == IF a >= b THEN a ELSE b

RECURSIVE Pow2(_)
Pow2(n) == IF n <= 0 THEN 1 ELSE 2 * Pow2(n - 1)

-----------------------------------------------------------------------------
(* _detect_platform                                                        *)

P_youtube_com == <<"y","o","u","t","u","b","e",".","c","o","m">>
P_youtu_be == <<"y","o","u","t","u",".","b","e">>
P_tiktok_com == <<"t","i","k","t","o","k",".","c","o","m">>
P_m_tiktok_com == <<"m",".","t","i","k","t","o","k",".","c","o","m">>
P_x_com == <<"x",".","c","o","m">>
P_twitter_com == <<"t","w","i","t","t","e","r",".","c","o","m">>
P_instagram_com == <<"i","n","s","t","a","g","r","a","m",".","c","o","m">>
P_vimeo_com == <<"v","i","m","e","o",".","c","o","m">>
P_twitch_tv == <<"t","w","i","t","c","h",".","t","v">>

PlatformInfo(name, supported, reliability, recommendation) ==
    [platform |-> name, supported |-> supported, reliability |-> reliability,
     recommendation |-> recommendation]

YouTubeInfo == PlatformInfo("YouTube", TRUE, "high", "Fully supported and reliable")
TikTokInfo ==
    PlatformInfo("TikTok", TRUE, "low",
        "May fail due to rate limiting. Consider retry logic or alternative methods.")
TwitterInfo ==
    PlatformInfo("X (Twitter)", TRUE, "low",
        "May fail due to access restrictions. Consider alternative methods.")
InstagramInfo == PlatformInfo("Instagram", TRUE, "medium", "Supported but may have limitations")
VimeoInfo ==
    PlatformInfo("Vimeo", FALSE, "none",
        "Not supported by Supadata. Use alternative transcription service.")
TwitchInfo ==
    PlatformInfo("Twitch", FALSE, "none",
        "Not supported by Supadata. Use alternative transcription service.")
UnknownInfo ==
    PlatformInfo("Unknown", FALSE, "unknown",
        "Platform not recognized. Check if URL is valid and supported.")

\* the if/elif chain of _detect_platform with its order changed: Vimeo is
\* tested before the supported platforms
detect_platform_reordered(url) ==
    LET url_lower == Lower(url) IN
    IF Contains(url_lower, P_vimeo_com) THEN VimeoInfo
    ELSE IF Contains(url_lower, P_youtube_com) \/ Contains(url_lower, P_youtu_be)
    THEN YouTubeInfo
    ELSE IF Contains(url_lower, P_tiktok_com) \/ Contains(url_lower, P_m_tiktok_com)
    THEN TikTokInfo
    ELSE IF Contains(url_lower, P_x_com) \/ Contains(url_lower, P_twitter_com)
    THEN TwitterInfo
    ELSE IF Contains(url_lower, P_instagram_com) THEN InstagramInfo
    ELSE IF Contains(url_lower, P_twitch_tv) THEN TwitchInfo
    ELSE UnknownInfo

detect_platform(url) ==
    LET url_lower == Lower(url) IN
    IF Contains(url_lower, P_youtube_com) \/ Contains(url_lower, P_youtu_be)
    THEN YouTubeInfo
    ELSE IF Contains(url_lower, P_tiktok_com) \/ Contains(url_lower, P_m_tiktok_com)
    THEN TikTokInfo
    ELSE IF Contains(url_lower, P_x_com) \/ Contains(url_lower, P_twitter_com)
    THEN TwitterInfo
    ELSE IF Contains(url_lower, P_instagram_com) THEN InstagramInfo
    ELSE IF Contains(url_lower, P_vimeo_com) THEN VimeoInfo
    ELSE IF Contains(url_lower, P_twitch_tv) THEN TwitchInfo
    ELSE UnknownInfo

(* URLs, assembled as scheme + host + path                                 *)

Scheme_https == <<"h","t","t","p","s",":","/","/">>
Scheme_none == <<>>
Scheme_www == <<"h","t","t","p","s",":","/","/","w","w","w",".">>
Scheme_upper == <<"H","T","T","P","S",":","/","/","W","W","W",".">>

Host_youtube == <<"y","o","u","t","u","b","e",".","c","o","m">>
Host_youtu_be == <<"y","o","u","t","u",".","b","e">>
Host_tiktok == <<"t","i","k","t","o","k",".","c","o","m">>
Host_m_tiktok == <<"m",".","t","i","k","t","o","k",".","c","o","m">>
Host_x == <<"x",".","c","o","m">>
Host_twitter == <<"t","w","i","t","t","e","r",".","c","o","m">>
Host_instagram == <<"i","n","s","t","a","g","r","a","m",".","c","o","m">>
Host_vimeo == <<"v","i","m","e","o",".","c","o","m">>
Host_twitch == <<"t","w","i","t","c","h",".","t","v">>
Host_example == <<"e","x","a","m","p","l","e",".","o","r","g">>
Host_netflix == <<"n","e","t","f","l","i","x",".","c","o","m">>
Host_YouTube_upper == <<"Y","o","u","T","u","b","e",".","C","O","M">>

Path_watch == <<"/","w","a","t","c","h","?","v","=","1">>
Path_video == <<"/","@","x","/","v","i","d","e","o","/","1">>
Path_one == <<"/","1">>
Path_empty == <<>>
Path_ref_youtube == <<"/","?","r","e","f","=","y","o","u","t","u","b","e",".","c","o","m">>
Path_ref_vimeo == <<"/","s","h","a","r","e","?","u","=","v","i","m","e","o",".","c","o","m","/","1">>

Schemes == {Scheme_https, Scheme_none, Scheme_www, Scheme_upper}

PlatformHosts ==
    {Host_youtube, Host_youtu_be, Host_tiktok, Host_m_tiktok, Host_x, Host_twitter,
     Host_instagram, Host_vimeo, Host_twitch, Host_YouTube_upper}

OtherHosts == {Host_example, Host_netflix}

Hosts == PlatformHosts \cup OtherHosts

Paths == {Path_watch, Path_video, Path_one, Path_empty, Path_ref_youtube, Path_ref_vimeo}

\* the URLs given to _transcribe_with_retry: one for each platform rule
FetchUrls ==
    {Host_youtube \o Path_watch, Host_tiktok \o Path_video, Scheme_https \o Host_x \o Path_one,
     Host_instagram \o Path_one, Host_vimeo \o Path_one, Host_twitch \o Path_one,
     Scheme_https \o Host_example \o Path_one}

-----------------------------------------------------------------------------
(* The transcription provider (supadata.transcript)                        *)

S_status_429 == <<"s","t","a","t","u","s"," ","4","2","9">>
S_status_400 == <<"s","t","a","t","u","s"," ","4","0","0">>
S_status_500 == <<"s","t","a","t","u","s"," ","5","0","0">>

Msg_rate_limited ==
    <<"R","e","q","u","e","s","t"," ","f","a","i","l","e","d",":"," ","s","t","a","t","u","s",
      " ","4","2","9">>
Msg_bad_request ==
    <<"R","e","q","u","e","s","t"," ","f","a","i","l","e","d",":"," ","s","t","a","t","u","s",
      " ","4","0","0">>
Msg_server_error ==
    <<"R","e","q","u","e","s","t"," ","f","a","i","l","e","d",":"," ","s","t","a","t","u","s",
      " ","5","0","0">>
Msg_not_found ==
    <<"R","e","q","u","e","s","t"," ","f","a","i","l","e","d",":"," ","s","t","a","t","u","s",
      " ","4","0","4">>

\* What one provider call can do: return a transcript object (content and
\* lang), return a job object (job_id), raise SupadataError, or raise another
\* exception.  str(e) is the message.
Outcome(kind, lang, content, job_id, msg) ==
    [kind |-> kind, lang |-> lang, content |-> content, job_id |-> job_id, msg |-> msg]

ProviderOutcomes ==
    {Outcome("content", "en", "hello world", "", <<>>),
     Outcome("content", "es", "", "", <<>>),
     Outcome("job", "", "", "job-1", <<>>),
     Outcome("SupadataError", "", "", "", Msg_rate_limited),
     Outcome("SupadataError", "", "", "", Msg_bad_request),
     Outcome("SupadataError", "", "", "", Msg_server_error),
     Outcome("SupadataError", "", "", "", Msg_not_found),
     Outcome("Exception", "", "", "", Msg_rate_limited)}

-----------------------------------------------------------------------------
(* _transcribe_with_retry                                                  *)

\* the default of the max_retries parameter
DefaultMaxRetries == 3

\* the low reliability floor of the retry budget
LowReliabilityRetries == 5

\* the largest max_retries a caller passes
MaxRetriesArg == 6

MaxRetriesArgs == {0, 1, DefaultMaxRetries, MaxRetriesArg}

NoResult == [status |-> "none"]

NoInfo == PlatformInfo("", FALSE, "", "")

Message(text, platform, error_msg) ==
    [text |-> text, platform |-> platform, error_msg |-> error_msg]

\* the dict returned for an unsupported platform
UnsupportedResult(url, info) ==
    [url |-> url, status |-> "error", platform |-> info.platform,
     error |-> [code |-> "PLATFORM_NOT_SUPPORTED",
                message |-> Message("Platform {platform} is not supported by Supadata",
                                    info.platform, <<>>),
                details |-> info.recommendation]]

\* an error dict whose recommendation is left empty
ErrorResult_no_recommendation(url, info, code, text, details) ==
    [url |-> url, platform |-> info.platform, status |-> "error",
     error |-> [code |-> code,
                message |-> Message(text, info.platform, details),
                details |-> details,
                platform_recommendation |-> ""]]

\* the dict returned by the error returns inside and after the loop
ErrorResult(url, info, code, text, details) ==
    [url |-> url, platform |-> info.platform, status |-> "error",
     error |-> [code |-> code,
                message |-> Message(text, info.platform, details),
                details |-> details,
                platform_recommendation |-> info.recommendation]]

SuccessResult(url, info, transcript) ==
    [url |-> url, platform |-> info.platform, language |-> transcript.lang,
     transcript |-> transcript.content, status |-> "success"]

ProcessingResult(url, info, transcript) ==
    [url |-> url, platform |-> info.platform, job_id |-> transcript.job_id,
     status |-> "processing"]

Return(f, result) == [f EXCEPT !.pc = "returned", !.result = result]

\* an exception leaves the coroutine
Propagate(f, msg) == [f EXCEPT !.pc = "raised", !.error_msg = msg]

\* the budget with the low reliability adjustment left out
RetryBudget_unadjusted(info, max_retries) == max_retries

\* max_retries after the reliability adjustment
RetryBudget(info, max_retries) ==
    IF info.reliability = "low"
    THEN Max(max_retries, LowReliabilityRetries)
    ELSE max_retries

\* the head of `for attempt in range(max_retries)`, and the return after the loop
LoopHead(f) ==
    IF f.attempt < f.max_retries
    THEN [f EXCEPT !.pc = "call"]
    ELSE Return(f, ErrorResult(f.url, f.platform_info, "UNKNOWN_ERROR",
                    "Unknown error occurred during {platform} transcription",
                    "Maximum retries exceeded"))

\* the gate with its test dropped: every platform enters the loop
Invoke_ungated(url, max_retries) ==
    LET info == detect_platform(url) IN
    LoopHead([pc |-> "call", url |-> url, arg_max_retries |-> max_retries,
              max_retries |-> RetryBudget(info, max_retries), platform_info |-> info,
              attempt |-> 0, handler |-> "none", error_msg |-> <<>>, wait_time |-> 0,
              result |-> NoResult, calls |-> 0, sleeps |-> <<>>, log |-> <<>>])

\* entry: classify, gate, select the budget, reach the first attempt
Invoke(url, max_retries) ==
    LET info == detect_platform(url)
        f == [pc |-> "call", url |-> url, arg_max_retries |-> max_retries,
              max_retries |-> RetryBudget(info, max_retries), platform_info |-> info,
              attempt |-> 0, handler |-> "none", error_msg |-> <<>>, wait_time |-> 0,
              result |-> NoResult, calls |-> 0, sleeps |-> <<>>, log |-> <<>>]
    IN  IF ~info.supported
        THEN Return(f, UnsupportedResult(url, info))
        ELSE LoopHead(f)

\* reach `await asyncio.sleep(wait_time)` in the except block `handler`
Sleep(f, handler, wait_time) ==
    [f EXCEPT !.pc = "sleep", !.handler = handler, !.wait_time = wait_time,
              !.sleeps = Append(@, wait_time)]

\* a response that is returned only when it carries content; a job response
\* is treated as a failed attempt
ProcessResponse_content_only(f, transcript) ==
    IF transcript.kind = "content"
    THEN Return(f, SuccessResult(f.url, f.platform_info, transcript))
    ELSE Sleep(f, "Exception", Pow2(f.attempt))

\* the try body after the provider call returned
ProcessResponse(f, transcript) ==
    IF transcript.kind = "content"
    THEN Return(f, SuccessResult(f.url, f.platform_info, transcript))
    ELSE Return(f, ProcessingResult(f.url, f.platform_info, transcript))

\* the else branch retried like a server error
ExceptSupadataError_retry_all(f, error_msg) ==
    LET g == [f EXCEPT !.error_msg = error_msg] IN
    IF Contains(error_msg, S_status_429)
    THEN Sleep(g, "SupadataError", Pow2(f.attempt) * 5)
    ELSE Sleep(g, "SupadataError", Pow2(f.attempt) * 2)

\* a handler whose backoff grows by a fixed step
ExceptSupadataError_linear_backoff(f, error_msg) ==
    LET g == [f EXCEPT !.error_msg = error_msg] IN
    IF Contains(error_msg, S_status_429)
    THEN Sleep(g, "SupadataError", (f.attempt + 1) * 5)
    ELSE IF Contains(error_msg, S_status_400) \/ Contains(error_msg, S_status_500)
    THEN Sleep(g, "SupadataError", (f.attempt + 1) * 2)
    ELSE Return(g, ErrorResult(f.url, f.platform_info, "TRANSCRIPTION_ERROR",
                    "Failed to transcribe {platform} video: {error_msg}", error_msg))

\* a handler that keeps the message of the first failure of the fetch
ExceptSupadataError_first_message(f, error_msg) ==
    LET g == [f EXCEPT !.error_msg = IF @ = <<>> THEN error_msg ELSE @] IN
    IF Contains(error_msg, S_status_429)
    THEN Sleep(g, "SupadataError", Pow2(f.attempt) * 5)
    ELSE IF Contains(error_msg, S_status_400) \/ Contains(error_msg, S_status_500)
    THEN Sleep(g, "SupadataError", Pow2(f.attempt) * 2)
    ELSE Return(g, ErrorResult(f.url, f.platform_info, "TRANSCRIPTION_ERROR",
                    "Failed to transcribe {platform} video: {error_msg}", error_msg))

\* except SupadataError, up to its sleep or its return
ExceptSupadataError(f, error_msg) ==
    LET g == [f EXCEPT !.error_msg = error_msg] IN
    IF Contains(error_msg, S_status_429)
    THEN Sleep(g, "SupadataError", Pow2(f.attempt) * 5)
    ELSE IF Contains(error_msg, S_status_400) \/ Contains(error_msg, S_status_500)
    THEN Sleep(g, "SupadataError", Pow2(f.attempt) * 2)
    ELSE Return(g, ErrorResult(f.url, f.platform_info, "TRANSCRIPTION_ERROR",
                    "Failed to transcribe {platform} video: {error_msg}", error_msg))

\* an except clause that re-raises on the last attempt
ExceptException_reraise(f, error_msg) ==
    LET g == [f EXCEPT !.error_msg = error_msg] IN
    IF f.attempt = f.max_retries - 1
    THEN Propagate(g, error_msg)
    ELSE Sleep(g, "Exception", Pow2(f.attempt))

\* an except clause that sleeps before it looks at the attempt number
ExceptException_sleep_always(f, error_msg) ==
    Sleep([f EXCEPT !.error_msg = error_msg], "Exception", Pow2(f.attempt))

\* except Exception, up to its return or its sleep
ExceptException(f, error_msg) ==
    LET g == [f EXCEPT !.error_msg = error_msg] IN
    IF f.attempt = f.max_retries - 1
    THEN Return(g, ErrorResult(f.url, f.platform_info, "UNEXPECTED_ERROR",
                    "Unexpected error transcribing {platform} video: {error_msg}",
                    error_msg))
    ELSE Sleep(g, "Exception", Pow2(f.attempt))

\* one iteration of the loop from the provider call to the next await or return
Attempt(f, o) ==
    LET g == [f EXCEPT !.calls = @ + 1, !.log = Append(@, o)] IN
    IF o.kind = "SupadataError" THEN ExceptSupadataError(g, o.msg)
    ELSE IF o.kind = "Exception" THEN ExceptException(g, o.msg)
    ELSE ProcessResponse(g, o)

\* a handler without the return on the last attempt: the loop goes on
AfterSleep_no_last_attempt_return(f) ==
    LoopHead([f EXCEPT !.attempt = @ + 1, !.handler = "none"])

\* a loop that repeats the iteration without moving to the next attempt
AfterSleep_same_attempt(f) == LoopHead([f EXCEPT !.handler = "none"])

\* the sleep is over: the rest of the except block, then the next iteration
AfterSleep(f) ==
    IF f.handler = "SupadataError" /\ f.attempt = f.max_retries - 1
    THEN Return(f, ErrorResult(f.url, f.platform_info, "TRANSCRIPTION_FAILED",
                    "Failed to transcribe {platform} video after {max_retries} attempts: {error_msg}",
                    f.error_msg))
    ELSE LoopHead([f EXCEPT !.attempt = @ + 1, !.handler = "none"])

IdleFetch ==
    [pc |-> "idle", url |-> <<>>, arg_max_retries |-> 0, max_retries |-> 0,
     platform_info |-> NoInfo, attempt |-> 0, handler |-> "none", error_msg |-> <<>>,
     wait_time |-> 0, result |-> NoResult, calls |-> 0, sleeps |-> <<>>, log |-> <<>>]

IdleClassify == [pc |-> "idle", host |-> <<>>, url |-> <<>>, info |-> NoInfo]

NoParsed == [how |-> "none"]

IdleParse ==
    [pc |-> "idle", doc |-> 0, cut |-> 0, wrap |-> "none", text |-> <<>>, result |-> NoParsed]

NoApiResult == [kind |-> "none"]

NoData == [kind |-> "none"]

NoResponse == [status_code |-> 0]

IdleTailor ==
    [pc |-> "idle", api_calls |-> 0, llm_calls |-> 0, thread |-> "none", elapsed |-> 0,
     api |-> NoApiResult, data |-> NoData, response |-> NoResponse,
     thread_result |-> NoApiResult]

-----------------------------------------------------------------------------
(* The state machine of one fetch                                          *)

\* the requests of the model that post to /transcribe
Reqs == {1, 2}

\* class UrlList: lang = "en", text = True, mode = "auto"
DefaultParams == [lang |-> "en", text |-> TRUE, mode |-> "auto"]

\* a transcribe coroutine that has not been started
IdleRequest ==
    [pc |-> "idle", urls |-> <<>>, params |-> DefaultParams, now |-> 0, i |-> 0,
     results |-> <<>>, fetch |-> IdleFetch, wake_at |-> 0, served |-> <<>>]

\* CACHE = {}
EmptyCache == [key \in {} |-> NoResult]

\* the empty CACHE, the clock, the event loop thread free, no request started
IdleServer ==
    [CACHE |-> EmptyCache, clock |-> 0, running |-> 0, req |-> [r \in Reqs |-> IdleRequest],
     stores |-> <<>>, gaps |-> 0]

\* before a calculate_metadata call
IdleMeta == [pc |-> "idle", words |-> 0, tailored_script |-> <<>>, result |-> NoData]

Init ==
    /\ fetch = IdleFetch
    /\ classify = IdleClassify
    /\ parse = IdleParse
    /\ tailor = IdleTailor
    /\ server = IdleServer
    /\ meta = IdleMeta

\* a caller invokes _transcribe_with_retry(url, lang, text, mode, max_retries)
FetchInvoke ==
    /\ fetch.pc = "idle"
    /\ \E url \in FetchUrls, max_retries \in MaxRetriesArgs :
           fetch' = Invoke(url, max_retries)
    /\ UNCHANGED <<classify, parse, tailor, server, meta>>

\* supadata.transcript(...) is called and answers
FetchAttempt ==
    /\ fetch.pc = "call"
    /\ \E o \in ProviderOutcomes : fetch' = Attempt(fetch, o)
    /\ UNCHANGED <<classify, parse, tailor, server, meta>>

\* asyncio.sleep(wait_time) completes
FetchWake ==
    /\ fetch.pc = "sleep"
    /\ fetch' = AfterSleep(fetch)
    /\ UNCHANGED <<classify, parse, tailor, server, meta>>

Next == FetchInvoke \/ FetchAttempt \/ FetchWake

Spec == Init /\ [][Next]_vars

-----------------------------------------------------------------------------
(* Properties of one fetch                                                 *)

Returned == fetch.pc = "returned"

IsSuccess(r) ==
    /\ r.status = "success"
    /\ DOMAIN r = {"url", "platform", "language", "transcript", "status"}

IsProcessing(r) ==
    /\ r.status = "processing"
    /\ DOMAIN r = {"url", "platform", "job_id", "status"}

IsError(r) ==
    /\ r.status = "error"
    /\ DOMAIN r = {"url", "platform", "status", "error"}
    /\ {"code", "message", "details"} \subseteq DOMAIN r.error

ErrorCode(r) == IF r.status = "error" THEN r.error.code ELSE "-"

\* the failure classes of the provider, read off the message of the error
IsRateLimit(o) == o.kind = "SupadataError" /\ Contains(o.msg, S_status_429)

IsBadRequestOrServerError(o) ==
    /\ o.kind = "SupadataError"
    /\ ~Contains(o.msg, S_status_429)
    /\ Contains(o.msg, S_status_400) \/ Contains(o.msg, S_status_500)

IsOtherProviderError(o) ==
    o.kind = "SupadataError" /\ ~IsRateLimit(o) /\ ~IsBadRequestOrServerError(o)

IsRetryable(o) == IsRateLimit(o) \/ IsBadRequestOrServerError(o) \/ o.kind = "Exception"

IsNormalReturn(o) == o.kind \in {"content", "job"}

\* C1: no exception leaves _transcribe_with_retry, and the dict it returns is
\* exactly one of the three variants: success with language and transcript,
\* processing with job_id, or error with code, message and details.
C1_ExactlyOneVariant ==
    /\ fetch.pc \in {"idle", "call", "sleep", "returned"}
    /\ Returned =>
         /\ IsSuccess(fetch.result) \/ IsProcessing(fetch.result) \/ IsError(fetch.result)
         /\ fetch.result.url = fetch.url

\* an untyped exception on the last attempt came back as a typed error
C1_Witness ==
    /\ Returned
    /\ fetch.log # <<>>
    /\ fetch.log[Len(fetch.log)].kind = "Exception"
    /\ ErrorCode(fetch.result) = "UNEXPECTED_ERROR"

\* C2: the provider is called at most budget times, the budget being
\* max_retries on a high or medium reliability platform and max(max_retries, 5)
\* on TikTok and X (Twitter); and a fetch on one of these two that met only
\* retryable failures returns its error after at least 5 calls.
C2_CallsWithinBudget ==
    LET info == fetch.platform_info
        budget == IF info.platform \in {"TikTok", "X (Twitter)"}
                  THEN Max(fetch.arg_max_retries, 5)
                  ELSE fetch.arg_max_retries
    IN  fetch.pc # "idle" /\ info.supported =>
          /\ info.reliability = "low" <=> info.platform \in {"TikTok", "X (Twitter)"}
          /\ fetch.calls <= budget
          /\ ( /\ Returned
               /\ fetch.result.status = "error"
               /\ info.platform \in {"TikTok", "X (Twitter)"}
               /\ \A k \in 1..Len(fetch.log) : IsRetryable(fetch.log[k]) )
             => fetch.calls >= 5

\* TikTok, called with the default max_retries, failed five times
C2_Witness ==
    /\ Returned
    /\ fetch.platform_info.platform = "TikTok"
    /\ fetch.arg_max_retries = DefaultMaxRetries
    /\ fetch.result.status = "error"
    /\ fetch.calls = 5
    /\ \A k \in 1..Len(fetch.log) : IsRetryable(fetch.log[k])

\* C3: when _detect_platform reports the platform as unsupported the fetch
\* returns PLATFORM_NOT_SUPPORTED and has called the provider and slept zero times.
C3_UnsupportedNoCall ==
    fetch.pc # "idle" /\ ~fetch.platform_info.supported =>
      /\ Returned
      /\ ErrorCode(fetch.result) = "PLATFORM_NOT_SUPPORTED"
      /\ fetch.calls = 0
      /\ fetch.sleeps = <<>>
      /\ fetch.log = <<>>

C3_Witness ==
    /\ Returned
    /\ fetch.platform_info.platform \in {"Vimeo", "Twitch", "Unknown"}
    /\ fetch.arg_max_retries > 0

\* C4: a provider call that returns normally is the last one of the fetch:
\* the fetch has returned Success with the response's language and content
\* when it carries content and Queued with its job_id otherwise, and every
\* sleep of the fetch came before that call.
C4_NormalReturnEnds ==
    \A k \in 1..Len(fetch.log) :
        IsNormalReturn(fetch.log[k]) =>
          /\ k = Len(fetch.log)
          /\ Returned
          /\ fetch.calls = k
          /\ Len(fetch.sleeps) = k - 1
          /\ IF fetch.log[k].kind = "content"
             THEN /\ IsSuccess(fetch.result)
                  /\ fetch.result.language = fetch.log[k].lang
                  /\ fetch.result.transcript = fetch.log[k].content
             ELSE /\ IsProcessing(fetch.result)
                  /\ fetch.result.job_id = fetch.log[k].job_id

\* the third call is the first to return, with a job
C4_Witness ==
    /\ Returned
    /\ Len(fetch.log) = 3
    /\ fetch.log[3].kind = "job"
    /\ fetch.max_retries > 3

\* C5: a provider error that is neither 429 nor 400/500 is the last call of
\* the fetch: TRANSCRIPTION_ERROR is returned and no sleep follows it.
C5_OtherErrorTerminal ==
    \A k \in 1..Len(fetch.log) :
        IsOtherProviderError(fetch.log[k]) =>
          /\ k = Len(fetch.log)
          /\ Returned
          /\ ErrorCode(fetch.result) = "TRANSCRIPTION_ERROR"
          /\ fetch.calls = k
          /\ Len(fetch.sleeps) = k - 1

\* the first of five allowed attempts fails with status 404
C5_Witness ==
    /\ Returned
    /\ Len(fetch.log) = 1
    /\ IsOtherProviderError(fetch.log[1])
    /\ fetch.max_retries = 5

-----------------------------------------------------------------------------
(* The state machine of one _detect_platform call                          *)

\* a caller has a URL, made of a scheme, a host and a path
ClassifyChoose ==
    /\ classify.pc = "idle"
    /\ \E scheme \in Schemes, host \in Hosts, path \in Paths :
           classify' = [pc |-> "chosen", host |-> host, url |-> scheme \o host \o path,
                        info |-> NoInfo]
    /\ UNCHANGED <<fetch, parse, tailor, server, meta>>

\* _detect_platform(url) returns
ClassifyRun ==
    /\ classify.pc = "chosen"
    /\ classify' = [classify EXCEPT !.pc = "done", !.info = detect_platform(classify.url)]
    /\ UNCHANGED <<fetch, parse, tailor, server, meta>>

NextPlatform == ClassifyChoose \/ ClassifyRun

SpecPlatform == Init /\ [][NextPlatform]_vars

\* s.endswith(p)
EndsWith(s, p) == Len(p) <= Len(s) /\ StartsWithAt(s, p, Len(s) - Len(p))

\* host is the platform's domain or a subdomain of it
HostIs(host, domain) ==
    LET h == Lower(host) IN h = domain \/ EndsWith(h, <<".">> \o domain)

\* the ordered rule table applied to the host of the URL, first match first
HostRuleTable(host) ==
    IF HostIs(host, P_youtube_com) \/ HostIs(host, P_youtu_be) THEN YouTubeInfo
    ELSE IF HostIs(host, P_tiktok_com) THEN TikTokInfo
    ELSE IF HostIs(host, P_x_com) \/ HostIs(host, P_twitter_com) THEN TwitterInfo
    ELSE IF HostIs(host, P_instagram_com) THEN InstagramInfo
    ELSE IF HostIs(host, P_vimeo_com) THEN VimeoInfo
    ELSE IF HostIs(host, P_twitch_tv) THEN TwitchInfo
    ELSE UnknownInfo

\* C6: _detect_platform is the ordered rule table on the host of the URL:
\* youtube.com/watch?v=1 is supported/high, tiktok.com/@x/video/1 is
\* supported/low, vimeo.com/1 is unsupported/none, and a URL whose host is
\* none of the platforms' hosts is Unknown, unsupported/unknown.
C6_HostRuleTable ==
    classify.pc = "done" =>
      /\ classify.url = Host_youtube \o Path_watch =>
           classify.info.supported /\ classify.info.reliability = "high"
      /\ classify.url = Host_tiktok \o Path_video =>
           classify.info.supported /\ classify.info.reliability = "low"
      /\ classify.url = Host_vimeo \o Path_one =>
           ~classify.info.supported /\ classify.info.reliability = "none"
      /\ classify.info = HostRuleTable(classify.host)

-----------------------------------------------------------------------------
(* json.loads: the decoder of the standard library, on a sequence of       *)
(* characters.  A decoded value is a record [t, s, ks, vs]: a string with  *)
(* its characters s, a number or a literal with its text s, an array with  *)
(* its elements vs, an object (a dict) with its keys ks and values vs in   *)
(* insertion order.                                                        *)

\* the character U+0060, which a string literal of this module cannot hold
Backtick == "GRAVE"

\* the character U+0008
Backspace == "BACKSPACE"

JsonWhitespace == {" ", "\t", "\n", "\r"}

\* what str.strip() and the regular expression class \s remove
PyWhitespace == {" ", "\t", "\n", "\r", "\f"}

\* the characters below U+0020, which a JSON string may not hold unescaped
ControlChars == {"\t", "\n", "\r", "\f", Backspace}

Digits == {"0", "1", "2", "3", "4", "5", "6", "7", "8", "9"}

HexDigits == Digits \cup {"a", "b", "c", "d", "e", "f", "A", "B", "C", "D", "E", "F"}

JVal(t, s, ks, vs) == [t |-> t, s |-> s, ks |-> ks, vs |-> vs]
JStr(s) == JVal("str", s, <<>>, <<>>)
JNum(s) == JVal("num", s, <<>>, <<>>)
JLit(s) == JVal("lit", s, <<>>, <<>>)
JArr(vs) == JVal("arr", <<>>, <<>>, vs)
JObj(ks, vs) == JVal("obj", <<>>, ks, vs)
JNone == JVal("none", <<>>, <<>>, <<>>)

\* JSONDecodeError
DecodeError == [ok |-> FALSE, pos |-> 0, val |-> JNone]

Decoded(pos, val) == [ok |-> TRUE, pos |-> pos, val |-> val]

\* s[i] with 1-based i, and a value that is no character beyond the ends
At(s, i) == IF 1 <= i /\ i <= Len(s) THEN s[i] ELSE "EOF"

L_null == <<"n","u","l","l">>
L_true == <<"t","r","u","e">>
L_false == <<"f","a","l","s","e">>
L_NaN == <<"N","a","N">>
L_Infinity == <<"I","n","f","i","n","i","t","y">>
L_minus_Infinity == <<"-","I","n","f","i","n","i","t","y">>

\* json.decoder.BACKSLASH
Backslash ==
    ("\"" :> "\"") @@ ("\\" :> "\\") @@ ("/" :> "/") @@ ("b" :> Backspace) @@
    ("f" :> "\f") @@ ("n" :> "\n") @@ ("r" :> "\r") @@ ("t" :> "\t")

\* the character of a \uXXXX escape, kept as its four hex digits
UnicodeChar(h) == "u+" \o h[1] \o h[2] \o h[3] \o h[4]

\* the index of the first character of s, from i on, that is not in chars
SpanEnd(s, i, chars) ==
    CHOOSE j \in i..(Len(s) + 1) :
        /\ j = Len(s) + 1 \/ s[j] \notin chars
        /\ \A k \in i..(j - 1) : s[k] \in chars

\* WHITESPACE.match(s, i).end()
SkipWs(s, i) == SpanEnd(s, i, JsonWhitespace)

\* the number of backslashes of s that immediately precede index k, from
\* index i on
BackslashesBefore(s, i, k) ==
    (k - 1) - (CHOOSE m \in (i - 1)..(k - 1) :
                   /\ m = i - 1 \/ s[m] # "\\"
                   /\ \A n \in (m + 1)..(k - 1) : s[n] = "\\")

\* in the string that starts at i, the backslash at k starts an escape
EscapeStart(s, i, k) == s[k] = "\\" /\ BackslashesBefore(s, i, k) % 2 = 0

\* in the string that starts at i, the character at k follows such a backslash
Escaped(s, i, k) == BackslashesBefore(s, i, k) % 2 = 1

\* the character at k is one of the hex digits of a \uXXXX escape
InUnicodeEscape(s, i, k) ==
    \E e \in (k - 5)..(k - 2) : e >= i /\ EscapeStart(s, i, e) /\ s[e + 1] = "u"

\* the character that the chunk starting at k decodes to
StringChar(s, i, k) ==
    IF EscapeStart(s, i, k)
    THEN IF s[k + 1] = "u"
         THEN UnicodeChar(SubSeq(s, k + 2, k + 5))
         ELSE Backslash[s[k + 1]]
    ELSE s[k]

\* scanstring(s, i, strict=True), i the index after the opening quote: the
\* string ends at the first quote that no backslash escapes; a control
\* character or an invalid escape before it is an error
ScanString(s, i) ==
    IF ~\E j \in i..Len(s) : s[j] = "\"" /\ ~Escaped(s, i, j)
    THEN DecodeError
    ELSE LET close == CHOOSE j \in i..Len(s) :
                          /\ s[j] = "\"" /\ ~Escaped(s, i, j)
                          /\ \A k \in i..(j - 1) : ~(s[k] = "\"" /\ ~Escaped(s, i, k))
             valid == \A k \in i..(close - 1) :
                          /\ s[k] \notin ControlChars
                          /\ EscapeStart(s, i, k) =>
                               \/ s[k + 1] \in DOMAIN Backslash
                               \/ /\ s[k + 1] = "u"
                                  /\ \A h \in 2..5 : At(s, k + h) \in HexDigits
             starts == SelectSeq([n \in 1..(close - i) |-> i + n - 1],
                           LAMBDA k : ~Escaped(s, i, k) /\ ~InUnicodeEscape(s, i, k))
         IN  IF valid
             THEN Decoded(close + 1, JStr([n \in 1..Len(starts) |-> StringChar(s, i, starts[n])]))
             ELSE DecodeError

DigitsEnd(s, i) == SpanEnd(s, i, Digits)

\* NUMBER_RE.match(s, i): the index after the match, i when there is none
NumberEnd(s, i) ==
    LET a == IF At(s, i) = "-" THEN i + 1 ELSE i
        b == IF At(s, a) = "0" THEN a + 1
             ELSE IF At(s, a) \in Digits THEN DigitsEnd(s, a)
             ELSE a
        c == IF At(s, b) = "." /\ At(s, b + 1) \in Digits THEN DigitsEnd(s, b + 1) ELSE b
        d == IF At(s, c) \in {"e", "E"}
             THEN IF At(s, c + 1) \in {"+", "-"} THEN c + 2 ELSE c + 1
             ELSE c
        e == IF d > c /\ At(s, d) \in Digits THEN DigitsEnd(s, d) ELSE c
    IN  IF b = a THEN i ELSE e

\* dict[key] = val
Put(obj, key, val) ==
    IF \E p \in 1..Len(obj.ks) : obj.ks[p] = key
    THEN LET p == CHOOSE p \in 1..Len(obj.ks) : obj.ks[p] = key
         IN  JObj(obj.ks, [obj.vs EXCEPT ![p] = val])
    ELSE JObj(Append(obj.ks, key), Append(obj.vs, val))

RECURSIVE ParseValue(_, _)
RECURSIVE ParseMembers(_, _, _)
RECURSIVE ParseElements(_, _, _)

\* JSONObject after a member: next is the index after the whitespace that
\* follows its value, more the dict with the member put in
NextMember(s, next, more) ==
    IF At(s, next) = "}" THEN Decoded(next + 1, more)
    ELSE IF At(s, next) = "," THEN ParseMembers(s, SkipWs(s, next + 1), more)
    ELSE DecodeError

\* JSONObject once the value of the member key has been scanned
AfterMemberValue(s, key, value, obj) ==
    IF ~value.ok THEN DecodeError
    ELSE NextMember(s, SkipWs(s, value.pos), Put(obj, key.val.s, value.val))

\* JSONObject at the colon that follows the property name key
AfterMemberName(s, key, colon, obj) ==
    IF At(s, colon) # ":" THEN DecodeError
    ELSE AfterMemberValue(s, key, ParseValue(s, SkipWs(s, colon + 1)), obj)

\* JSONObject once the property name key has been scanned
MemberName(s, key, obj) ==
    IF ~key.ok THEN DecodeError
    ELSE AfterMemberName(s, key, SkipWs(s, key.pos), obj)

\* JSONObject, from a property name at i on
ParseMembers(s, i, obj) ==
    IF At(s, i) # "\"" THEN DecodeError
    ELSE MemberName(s, ScanString(s, i + 1), obj)

\* JSONArray after an element: next is the index after the whitespace that
\* follows it, more the list with the element appended
NextElement(s, next, more) ==
    IF At(s, next) = "]" THEN Decoded(next + 1, JArr(more))
    ELSE IF At(s, next) = "," THEN ParseElements(s, SkipWs(s, next + 1), more)
    ELSE DecodeError

\* JSONArray once the element value has been scanned
AfterElement(s, value, elems) ==
    IF ~value.ok THEN DecodeError
    ELSE NextElement(s, SkipWs(s, value.pos), Append(elems, value.val))

\* JSONArray, from an element at i on
ParseElements(s, i, elems) == AfterElement(s, ParseValue(s, i), elems)

\* scan_once(s, i)
ParseValue(s, i) ==
    LET c == At(s, i) IN
    IF c = "\"" THEN ScanString(s, i + 1)
    ELSE IF c = "{"
    THEN LET j == SkipWs(s, i + 1) IN
         IF At(s, j) = "}" THEN Decoded(j + 1, JObj(<<>>, <<>>))
         ELSE ParseMembers(s, j, JObj(<<>>, <<>>))
    ELSE IF c = "["
    THEN LET j == SkipWs(s, i + 1) IN
         IF At(s, j) = "]" THEN Decoded(j + 1, JArr(<<>>))
         ELSE ParseElements(s, j, <<>>)
    ELSE IF StartsWithAt(s, L_null, i - 1) THEN Decoded(i + 4, JLit(L_null))
    ELSE IF StartsWithAt(s, L_true, i - 1) THEN Decoded(i + 4, JLit(L_true))
    ELSE IF StartsWithAt(s, L_false, i - 1) THEN Decoded(i + 5, JLit(L_false))
    ELSE IF NumberEnd(s, i) > i
    THEN Decoded(NumberEnd(s, i), JNum(SubSeq(s, i, NumberEnd(s, i) - 1)))
    ELSE IF StartsWithAt(s, L_NaN, i - 1) THEN Decoded(i + 3, JLit(L_NaN))
    ELSE IF StartsWithAt(s, L_Infinity, i - 1) THEN Decoded(i + 8, JLit(L_Infinity))
    ELSE IF StartsWithAt(s, L_minus_Infinity, i - 1)
    THEN Decoded(i + 9, JLit(L_minus_Infinity))
    ELSE DecodeError

\* json.loads(s): ok is FALSE when it raises JSONDecodeError
json_loads(s) ==
    LET r == ParseValue(s, SkipWs(s, 1)) IN
    IF r.ok /\ SkipWs(s, r.pos) = Len(s) + 1 THEN r ELSE DecodeError

-----------------------------------------------------------------------------
(* More str operations, for parse_ai_response                              *)

\* the index of the first character of s, from i on, that is not in chars
LeadingEnd(s, i, chars) == SpanEnd(s, i, chars)

\* the index of the last character of s, up to i, that is not in chars
TrailingStart(s, i, chars) ==
    CHOOSE j \in 0..i :
        /\ j = 0 \/ s[j] \notin chars
        /\ \A k \in (j + 1)..i : s[k] \in chars

\* s.rstrip(chars)
RStripChars(s, chars) == SubSeq(s, 1, TrailingStart(s, Len(s), chars))

\* s.rstrip()
rstrip(s) == RStripChars(s, PyWhitespace)

\* s.strip()
strip(s) == rstrip(SubSeq(s, LeadingEnd(s, 1, PyWhitespace), Len(s)))

\* s.count(c)
Count(s, c) == Cardinality({i \in 1..Len(s) : s[i] = c})

\* s.rfind(c): a 0-based index, -1 when c is not in s
RFind(s, c) ==
    IF \E i \in 1..Len(s) : s[i] = c
    THEN (CHOOSE i \in 1..Len(s) : s[i] = c /\ \A j \in (i + 1)..Len(s) : s[j] # c) - 1
    ELSE -1

Max3(a, b, c) == Max(a, Max(b, c))

\* c * n
Repeat(c, n) == [i \in 1..n |-> c]

-----------------------------------------------------------------------------
(* AIScriptTailoringService.parse_ai_response and its helpers              *)

Fence == <<Backtick, Backtick, Backtick>>

FenceJson == Fence \o <<"j", "s", "o", "n">>

K_tailoredScript == <<"\"","t","a","i","l","o","r","e","d","S","c","r","i","p","t","\"">>
K_confidence == <<"\"","c","o","n","f","i","d","e","n","c","e","\"">>
\* the text appended by _complete_json_structure
TruncatedStructure ==
    <<"\n"," "," ","\"","c","o","n","f","i","d","e","n","c","e","\"",":"," ","0",".","8",",",
      "\n"," "," ","\"","i","m","p","r","o","v","e","m","e","n","t","A","r","e","a","s","\"",
      ":"," ","[","\"","t","r","u","n","c","a","t","e","d","_","r","e","s","p","o","n","s","e",
      "\"","]",",","\n"," "," ","\"","s","e","c","t","i","o","n","B","r","e","a","k","d","o",
      "w","n","\"",":"," ","[","]",",","\n"," "," ","\"","s","u","t","h","e","r","l","a","n",
      "d","A","l","c","h","e","m","y","\"",":"," ","{","\n"," "," "," "," ","\"","e","x","p",
      "l","a","n","a","t","i","o","n","\"",":"," ","\"","R","e","s","p","o","n","s","e"," ","w",
      "a","s"," ","t","r","u","n","c","a","t","e","d"," ","a","n","d"," ","r","e","c","o","v",
      "e","r","e","d","\"",",","\n"," "," "," "," ","\"","v","a","l","u","e","R","e","f","r",
      "a","m","i","n","g","\"",":"," ","[","]",",","\n"," "," "," "," ","\"","i","d","e","n",
      "t","i","t","y","S","h","i","f","t","s","\"",":"," ","[","]","\n"," "," ","}",",","\n",
      " "," ","\"","h","o","r","m","o","z","i","V","a","l","u","e","S","t","a","c","k","\"",":",
      " ","{","\n"," "," "," "," ","\"","c","o","r","e","O","f","f","e","r","\"",":"," ","\"",
      "A","n","a","l","y","s","i","s"," ","i","n","c","o","m","p","l","e","t","e"," ","d","u",
      "e"," ","t","o"," ","t","r","u","n","c","a","t","i","o","n","\"",",","\n"," "," "," "," ",
      "\"","v","a","l","u","e","E","l","e","m","e","n","t","s","\"",":"," ","[","]",",","\n",
      " "," "," "," ","\"","t","o","t","a","l","S","t","a","c","k","\"",":"," ","{","}",",",
      "\n"," "," "," "," ","\"","g","r","a","n","d","S","l","a","m","E","l","e","m","e","n","t",
      "s","\"",":"," ","[","]","\n"," "," ","}","\n","}">>
T_parse_error ==
    <<"E","r","r","o","r",":"," ","C","o","u","l","d"," ","n","o","t"," ","p","a","r","s","e",
      " ","A","I"," ","r","e","s","p","o","n","s","e","."," ","P","l","e","a","s","e"," ","t",
      "r","y"," ","a","g","a","i","n",".">>
T_parsing_error == <<"p","a","r","s","i","n","g","_","e","r","r","o","r">>
T_error_in_parsing ==
    <<"E","r","r","o","r"," ","i","n"," ","p","a","r","s","i","n","g"," ","r","e","s","p","o",
      "n","s","e">>
T_error_in_analysis == <<"E","r","r","o","r"," ","i","n"," ","a","n","a","l","y","s","i","s">>
N_tailoredScript == <<"t","a","i","l","o","r","e","d","S","c","r","i","p","t">>
N_confidence == <<"c","o","n","f","i","d","e","n","c","e">>
N_improvementAreas == <<"i","m","p","r","o","v","e","m","e","n","t","A","r","e","a","s">>
N_sectionBreakdown == <<"s","e","c","t","i","o","n","B","r","e","a","k","d","o","w","n">>
N_sutherlandAlchemy == <<"s","u","t","h","e","r","l","a","n","d","A","l","c","h","e","m","y">>
N_hormoziValueStack == <<"h","o","r","m","o","z","i","V","a","l","u","e","S","t","a","c","k">>
N_explanation == <<"e","x","p","l","a","n","a","t","i","o","n">>
N_valueReframing == <<"v","a","l","u","e","R","e","f","r","a","m","i","n","g">>
N_identityShifts == <<"i","d","e","n","t","i","t","y","S","h","i","f","t","s">>
N_coreOffer == <<"c","o","r","e","O","f","f","e","r">>
N_valueElements == <<"v","a","l","u","e","E","l","e","m","e","n","t","s">>
N_totalStack == <<"t","o","t","a","l","S","t","a","c","k">>
N_grandSlamElements == <<"g","r","a","n","d","S","l","a","m","E","l","e","m","e","n","t","s">>
\* the minimal fallback structure
Fallback ==
    JObj(<<N_tailoredScript, N_confidence, N_improvementAreas, N_sectionBreakdown,
           N_sutherlandAlchemy, N_hormoziValueStack>>,
         <<JStr(T_parse_error),
           JNum(<<"0", ".", "1">>),
           JArr(<<JStr(T_parsing_error)>>),
           JArr(<<>>),
           JObj(<<N_explanation, N_valueReframing, N_identityShifts>>,
                <<JStr(T_error_in_parsing), JArr(<<>>), JArr(<<>>)>>),
           JObj(<<N_coreOffer, N_valueElements, N_totalStack, N_grandSlamElements>>,
                <<JStr(T_error_in_analysis), JArr(<<>>), JObj(<<>>, <<>>), JArr(<<>>)>>)>>)

\* re.sub(r'^<prefix>\s*', '', s), for s that starts with prefix
RemoveLeadingFence(s, prefix) ==
    SubSeq(s, LeadingEnd(s, Len(prefix) + 1, PyWhitespace), Len(s))

\* the trailing fence left in place
RemoveTrailingFence_kept(s) == s

\* re.sub(r'\s*```$', '', s)
RemoveTrailingFence(s) ==
    IF EndsWith(s, Fence) THEN rstrip(SubSeq(s, 1, Len(s) - Len(Fence))) ELSE s

\* the cleaning of the response: strip(), then the markdown code fences
CleanResponse(ai_response) ==
    LET clean_response == strip(ai_response) IN
    IF StartsWithAt(clean_response, FenceJson, 0)
    THEN RemoveTrailingFence(RemoveLeadingFence(clean_response, FenceJson))
    ELSE IF StartsWithAt(clean_response, Fence, 0)
    THEN RemoveTrailingFence(RemoveLeadingFence(clean_response, Fence))
    ELSE clean_response

\* _complete_json_structure
complete_json_structure(response) ==
    IF json_loads(response).ok THEN response
    ELSE IF Contains(response, K_tailoredScript) /\ ~Contains(response, K_confidence)
    THEN RStripChars(rstrip(response), {","}) \o <<",">> \o TruncatedStructure
    ELSE response

\* a loop body without the escape_next tests: every quote toggles in_string
ScanStep_no_escape(st, char, i) ==
    IF char = "\""
    THEN [st EXCEPT !.in_string = ~st.in_string,
                    !.last_valid_pos = IF st.in_string THEN i ELSE @]
    ELSE IF ~st.in_string /\ char \in {"{", "}", "[", "]", ",", ":"}
    THEN [st EXCEPT !.last_valid_pos = i]
    ELSE st

\* the body of the character loop of _fix_unterminated_strings, for the
\* character char at the 0-based index i
ScanStep(st, char, i) ==
    IF st.escape_next THEN [st EXCEPT !.escape_next = FALSE]
    ELSE IF char = "\\" THEN [st EXCEPT !.escape_next = TRUE]
    ELSE IF char = "\""
    THEN [st EXCEPT !.in_string = ~st.in_string,
                    !.last_valid_pos = IF st.in_string THEN i ELSE @]
    ELSE IF ~st.in_string /\ char \in {"{", "}", "[", "]", ",", ":"}
    THEN [st EXCEPT !.last_valid_pos = i]
    ELSE st

RECURSIVE ScanRange(_, _, _, _)
\* the loop over the characters lo..hi (1-based), run as two halves; the
\* state after the first half is computed before the second half starts
ScanRange(response, lo, hi, st) ==
    IF lo > hi THEN st
    ELSE IF lo = hi THEN ScanStep(st, response[lo], lo - 1)
    ELSE LET mid == (lo + hi) \div 2
             left == ScanRange(response, lo, mid, st)
         IN  IF left.last_valid_pos <= hi
             THEN ScanRange(response, mid + 1, hi, left)
             ELSE left

\* the character loop of _fix_unterminated_strings: the final in_string,
\* escape_next and last_valid_pos
ScanQuotes(response) ==
    ScanRange(response, 1, Len(response),
        [in_string |-> FALSE, escape_next |-> FALSE, last_valid_pos |-> 0])

\* _fix_unterminated_strings
fix_unterminated_strings(response) ==
    LET scan == ScanQuotes(response) IN
    IF scan.in_string
    THEN LET response_up_to_error == SubSeq(response, 1, scan.last_valid_pos + 1)
             last_sentence_end == Max3(RFind(response_up_to_error, "."),
                                       RFind(response_up_to_error, "!"),
                                       RFind(response_up_to_error, "?"))
             closed == IF last_sentence_end > 0
                       THEN SubSeq(response_up_to_error, 1, last_sentence_end + 1) \o <<"\"">>
                       ELSE response_up_to_error \o <<"\"">>
         IN  IF ~EndsWith(rstrip(closed), <<"}">>)
             THEN complete_json_structure(closed)
             ELSE closed
    ELSE response

\* the missing closing braces appended
AddClosingBraces(response) ==
    IF Count(response, "{") > Count(response, "}")
    THEN response \o Repeat("}", Count(response, "{") - Count(response, "}"))
    ELSE response

\* the missing closing brackets appended
AddClosingBrackets(response) ==
    IF Count(response, "[") > Count(response, "]")
    THEN response \o Repeat("]", Count(response, "[") - Count(response, "]"))
    ELSE response

\* _fix_common_json_issues
fix_common_json_issues(response) ==
    AddClosingBrackets(AddClosingBraces(fix_unterminated_strings(response)))

Outcome3(how, value, repaired) == [how |-> how, value |-> value, repaired |-> repaired]

\* the end of the recovery attempt: parsed_result is what json.loads made of
\* fixed_response
RecoveredOrFallback(parsed_result) ==
    IF parsed_result.ok
    THEN Outcome3("recovered", parsed_result.val, TRUE)
    ELSE Outcome3("fallback", Fallback, TRUE)

\* the recovery branch entered whether or not the key is in the text
Recover_without_key_test(clean_response) ==
    RecoveredOrFallback(json_loads(fix_common_json_issues(clean_response)))

\* the except branch of parse_ai_response: partial data recovery, else the fallback
Recover(clean_response) ==
    IF Contains(clean_response, K_tailoredScript)
    THEN RecoveredOrFallback(json_loads(fix_common_json_issues(clean_response)))
    ELSE Outcome3("fallback", Fallback, FALSE)

\* the try block of parse_ai_response and its except branch: parsed_data is
\* what json.loads made of clean_response
DecodeOrRecover(clean_response, parsed_data) ==
    IF parsed_data.ok
    THEN Outcome3("direct", parsed_data.val, FALSE)
    ELSE Recover(clean_response)

\* the cleaned response decoded
ParseCleaned(clean_response) ==
    DecodeOrRecover(clean_response, json_loads(clean_response))

\* parse_ai_response: the value it returns, how it was obtained ("direct",
\* "recovered" or "fallback") and whether _fix_common_json_issues ran
parse_ai_response(ai_response) == ParseCleaned(CleanResponse(ai_response))


-----------------------------------------------------------------------------
(* generate_tailored_script: the result assembled from the parsed LLM      *)
(* response, or the error result of its except branch.  AITailoringData    *)
(* is a pydantic model: constructing it validates the field values.        *)

\* settings.REQUEST_TIMEOUT
REQUEST_TIMEOUT == 60

\* the reading rate of calculate_metadata, in words per minute
WordsPerMinute == 150

M_timed_out_after ==
    <<"A","P","I"," ","c","a","l","l"," ","t","i","m","e","d"," ","o","u","t"," ","a","f","t",
      "e","r"," ">>
M_seconds == <<" ","s","e","c","o","n","d","s">>
M_connection_error == <<"C","o","n","n","e","c","t","i","o","n"," ","e","r","r","o","r",".">>
M_rate_limit ==
    <<"E","r","r","o","r"," ","c","o","d","e",":"," ","4","2","9"," ","-"," ","r","a","t","e",
      " ","l","i","m","i","t">>
M_len_of_none ==
    <<"o","b","j","e","c","t"," ","o","f"," ","t","y","p","e"," ","'","N","o","n","e","T","y",
      "p","e","'"," ","h","a","s"," ","n","o"," ","l","e","n","(",")">>
M_object_has_no_attribute ==
    <<" ","o","b","j","e","c","t"," ","h","a","s"," ","n","o"," ","a","t","t","r","i","b","u",
      "t","e"," ">>
M_validation_error ==
    <<"1"," ","v","a","l","i","d","a","t","i","o","n"," ","e","r","r","o","r"," ","f","o","r",
      " ","A","I","T","a","i","l","o","r","i","n","g","D","a","t","a">>
T_error_generating ==
    <<"E","r","r","o","r"," ","g","e","n","e","r","a","t","i","n","g"," ","s","c","r","i","p",
      "t",":"," ">>
T_error_occurred ==
    <<"E","r","r","o","r"," ","o","c","c","u","r","r","e","d"," ","d","u","r","i","n","g"," ",
      "p","r","o","c","e","s","s","i","n","g">>
T_Error == <<"E","r","r","o","r">>
N_sectionName == <<"s","e","c","t","i","o","n","N","a","m","e">>
N_triggerEmotionalState ==
    <<"t","r","i","g","g","e","r","E","m","o","t","i","o","n","a","l","S","t","a","t","e">>
N_originalQuote == <<"o","r","i","g","i","n","a","l","Q","u","o","t","e">>
N_rewrittenVersion == <<"r","e","w","r","i","t","t","e","n","V","e","r","s","i","o","n">>
N_sceneDescription == <<"s","c","e","n","e","D","e","s","c","r","i","p","t","i","o","n">>
N_psychologicalPrinciples ==
    <<"p","s","y","c","h","o","l","o","g","i","c","a","l","P","r","i","n","c","i","p","l","e",
      "s">>
N_timestamp == <<"t","i","m","e","s","t","a","m","p">>

DigitChars == <<"0", "1", "2", "3", "4", "5", "6", "7", "8", "9">>

RECURSIVE IntToStr(_)
\* str(n) of a non-negative int
IntToStr(n) ==
    IF n < 10 THEN <<DigitChars[n + 1]>>
    ELSE IntToStr(n \div 10) \o <<DigitChars[(n % 10) + 1]>>

\* f"API call timed out after {settings.REQUEST_TIMEOUT} seconds"
M_timed_out == M_timed_out_after \o IntToStr(REQUEST_TIMEOUT) \o M_seconds

\* the value of one decimal digit
DigitValue(c) == (CHOOSE k \in 1..10 : DigitChars[k] = c) - 1

RECURSIVE DigitsValue(_)
\* int(s) of a sequence of decimal digits
DigitsValue(s) ==
    IF s = <<>> THEN 0
    ELSE 10 * DigitsValue(SubSeq(s, 1, Len(s) - 1)) + DigitValue(s[Len(s)])

RECURSIVE Pow10(_)
Pow10(n) == IF n <= 0 THEN 1 ELSE 10 * Pow10(n - 1)

\* float(s) of the text of a JSON number, as the fraction num / den with
\* den > 0 (the rounding to a double left out)
FloatOf(s) ==
    LET neg == At(s, 1) = "-"
        a == IF neg THEN 2 ELSE 1
        b == DigitsEnd(s, a)
        c == IF At(s, b) = "." THEN DigitsEnd(s, b + 1) ELSE b
        frac == IF c > b THEN SubSeq(s, b + 1, c - 1) ELSE <<>>
        has_exp == At(s, c) \in {"e", "E"}
        exp_neg == has_exp /\ At(s, c + 1) = "-"
        d == IF has_exp THEN (IF At(s, c + 1) \in {"+", "-"} THEN c + 2 ELSE c + 1) ELSE c
        exp == IF has_exp THEN DigitsValue(SubSeq(s, d, Len(s))) ELSE 0
        mantissa == DigitsValue(SubSeq(s, a, b - 1) \o frac)
        up == IF exp_neg THEN 0 ELSE exp
        down == Len(frac) + (IF exp_neg THEN exp ELSE 0)
    IN  [num |-> (IF neg THEN 0 - mantissa ELSE mantissa) * Pow10(up), den |-> Pow10(down)]

\* type(v).__name__ of a decoded value
TypeName(v) ==
    CASE v.t = "obj" -> <<"d","i","c","t">>
      [] v.t = "arr" -> <<"l","i","s","t">>
      [] v.t = "str" -> <<"s","t","r">>
      [] v.t = "num" ->
           IF \E k \in 1..Len(v.s) : v.s[k] \in {".", "e", "E"}
           THEN <<"f","l","o","a","t">> ELSE <<"i","n","t">>
      [] v.t = "lit" ->
           IF v.s = L_null THEN <<"N","o","n","e","T","y","p","e">>
           ELSE IF v.s \in {L_true, L_false} THEN <<"b","o","o","l">>
           ELSE <<"f","l","o","a","t">>
      [] OTHER -> <<"N","o","n","e","T","y","p","e">>

\* str(e) of the AttributeError raised by value.attr
M_no_attribute(value, attr) ==
    <<"'">> \o TypeName(value) \o <<"'">> \o M_object_has_no_attribute
        \o <<"'">> \o attr \o <<"'">>

HasKey(v, key) == v.t = "obj" /\ \E p \in 1..Len(v.ks) : v.ks[p] = key

Get(v, key) == v.vs[CHOOSE p \in 1..Len(v.ks) : v.ks[p] = key]

\* dict.get(key, default)
GetOr(v, key, default) == IF HasKey(v, key) THEN Get(v, key) ELSE default

\* a word count that is the number of characters
WordCount_characters(s) == Len(s)

\* len(s.split()): the number of maximal runs of non-whitespace characters
WordCount(s) ==
    Cardinality({i \in 1..Len(s) :
        s[i] \notin PyWhitespace /\ (i = 1 \/ s[i - 1] \in PyWhitespace)})

\* the field validations of the pydantic models
IsStr(v) == v.t = "str"

IsStrList(v) == v.t = "arr" /\ \A k \in 1..Len(v.vs) : v.vs[k].t = "str"

IsDictList(v) == v.t = "arr" /\ \A k \in 1..Len(v.vs) : v.vs[k].t = "obj"

HasStr(v, key) == HasKey(v, key) /\ IsStr(Get(v, key))

ValidSectionBreakdown(v) ==
    /\ v.t = "obj"
    /\ \A key \in {N_sectionName, N_triggerEmotionalState, N_originalQuote,
                   N_rewrittenVersion, N_sceneDescription, N_timestamp} : HasStr(v, key)
    /\ HasKey(v, N_psychologicalPrinciples) /\ IsStrList(Get(v, N_psychologicalPrinciples))

ValidSutherlandAlchemy(v) ==
    /\ v.t = "obj"
    /\ HasStr(v, N_explanation)
    /\ HasKey(v, N_valueReframing) /\ IsDictList(Get(v, N_valueReframing))
    /\ HasKey(v, N_identityShifts) /\ IsStrList(Get(v, N_identityShifts))

ValidHormoziValueStack(v) ==
    /\ v.t = "obj"
    /\ HasStr(v, N_coreOffer)
    /\ HasKey(v, N_valueElements) /\ IsDictList(Get(v, N_valueElements))
    /\ HasKey(v, N_totalStack) /\ Get(v, N_totalStack).t = "obj"
    /\ HasKey(v, N_grandSlamElements) /\ IsStrList(Get(v, N_grandSlamElements))

\* text is wholly the text of a JSON number
IsNumberText(text) == text # <<>> /\ NumberEnd(text, 1) = Len(text) + 1

\* confidence: float takes a number, a bool, or a str that reads as a number
ValidConfidence(v) ==
    \/ v.t = "num"
    \/ v.t = "lit" /\ v.s # L_null
    \/ v.t = "str" /\ IsNumberText(strip(v.s))

\* the float made of a valid confidence; den = 0 stands for nan and the infinities
ConfidenceOf(v) ==
    IF v.t = "num" THEN FloatOf(v.s)
    ELSE IF v.t = "str" THEN FloatOf(strip(v.s))
    ELSE IF v.s = L_true THEN [num |-> 1, den |-> 1]
    ELSE IF v.s = L_false THEN [num |-> 0, den |-> 1]
    ELSE IF v.s = L_Infinity THEN [num |-> 1, den |-> 0]
    ELSE IF v.s = L_minus_Infinity THEN [num |-> 0 - 1, den |-> 0]
    ELSE [num |-> 0, den |-> 0]

\* a read time that stays in seconds up to and including one minute
EstimatedReadTime_seconds_at_one_minute(word_count) ==
    IF word_count <= WordsPerMinute
    THEN IntToStr((word_count * 60) \div WordsPerMinute) \o <<"s">>
    ELSE IntToStr(((2 * word_count * 10 + WordsPerMinute) \div (2 * WordsPerMinute)) \div 10)
         \o <<".">>
         \o IntToStr(((2 * word_count * 10 + WordsPerMinute) \div (2 * WordsPerMinute)) % 10)
         \o <<"m">>

\* the read time of word_count words at 150 words per minute: whole seconds
\* int(word_count / 150 * 60) with suffix s when word_count / 150 < 1, else
\* the minutes rounded to one decimal with suffix m.  The float results of
\* the code equal these integer ones for every word_count up to 200000
EstimatedReadTime(word_count) ==
    IF word_count < WordsPerMinute
    THEN IntToStr((word_count * 60) \div WordsPerMinute) \o <<"s">>
    ELSE IntToStr(((2 * word_count * 10 + WordsPerMinute) \div (2 * WordsPerMinute)) \div 10)
         \o <<".">>
         \o IntToStr(((2 * word_count * 10 + WordsPerMinute) \div (2 * WordsPerMinute)) % 10)
         \o <<"m">>

\* calculate_metadata
calculate_metadata(tailored_script, original_transcript, processing_time) ==
    [wordCount |-> WordCount(tailored_script),
     estimatedReadTime |-> EstimatedReadTime(WordCount(tailored_script)),
     originalLength |-> WordCount(original_transcript),
     processingTime |-> processing_time]

\* the AITailoringData the except branch of generate_tailored_script returns
ErrorData(msg, processing_time) ==
    [kind |-> "error",
     tailoredScript |-> T_error_generating \o msg,
     confidence |-> [num |-> 0, den |-> 1],
     processingTime |-> processing_time,
     wordCount |-> 0,
     estimatedReadTime |-> <<"0", "s">>,
     sectionBreakdown |-> JArr(<<>>),
     sutherlandAlchemy |->
         JObj(<<N_explanation, N_valueReframing, N_identityShifts>>,
              <<JStr(T_error_occurred), JArr(<<>>), JArr(<<>>)>>),
     hormoziValueStack |->
         JObj(<<N_coreOffer, N_valueElements, N_totalStack, N_grandSlamElements>>,
              <<JStr(T_error_in_analysis), JArr(<<>>), JObj(<<>>, <<>>), JArr(<<>>)>>)]

\* AITailoringData(...) in the try block: the validated model, or the error
\* result when the constructor raises ValidationError
CreateData(tailoredScript, confidence, sectionBreakdown, sutherlandAlchemy, hormoziValueStack, processing_time) ==
    IF /\ ValidConfidence(confidence)
       /\ sectionBreakdown.t = "arr"
       /\ \A k \in 1..Len(sectionBreakdown.vs) : ValidSectionBreakdown(sectionBreakdown.vs[k])
       /\ ValidSutherlandAlchemy(sutherlandAlchemy)
       /\ ValidHormoziValueStack(hormoziValueStack)
    THEN [kind |-> "tailored",
          tailoredScript |-> tailoredScript.s,
          confidence |-> ConfidenceOf(confidence),
          processingTime |-> processing_time,
          wordCount |-> WordCount(tailoredScript.s),
          estimatedReadTime |-> EstimatedReadTime(WordCount(tailoredScript.s)),
          sectionBreakdown |-> sectionBreakdown,
          sutherlandAlchemy |-> sutherlandAlchemy,
          hormoziValueStack |-> hormoziValueStack]
    ELSE ErrorData(M_validation_error, processing_time)

\* the try block of generate_tailored_script after parse_ai_response returned
AssembleData(parsed_data, processing_time) ==
    IF parsed_data.t # "obj"
    THEN ErrorData(M_no_attribute(parsed_data, <<"g","e","t">>), processing_time)
    ELSE IF ~IsStr(GetOr(parsed_data, N_tailoredScript, JStr(<<>>)))
    THEN ErrorData(M_no_attribute(Get(parsed_data, N_tailoredScript),
                                  <<"s","p","l","i","t">>), processing_time)
    ELSE CreateData(GetOr(parsed_data, N_tailoredScript, JStr(<<>>)),
                    GetOr(parsed_data, N_confidence, JNum(<<"0", ".", "8">>)),
                    GetOr(parsed_data, N_sectionBreakdown, JArr(<<>>)),
                    GetOr(parsed_data, N_sutherlandAlchemy, JObj(<<>>, <<>>)),
                    GetOr(parsed_data, N_hormoziValueStack, JObj(<<>>, <<>>)),
                    processing_time)

-----------------------------------------------------------------------------
(* The state machine of one parse_ai_response call.  The text handed to    *)
(* it is a response of the model, whole or cut off after cut characters    *)
(* (the token limit), bare or inside a markdown code fence.                *)

Doc_tailored ==
    <<"{","\"","t","a","i","l","o","r","e","d","S","c","r","i","p","t","\"",":"," ","\"","H",
      "i","."," ","G","o"," ","n","o","w","\"",","," ","\"","c","o","n","f","i","d","e","n","c",
      "e","\"",":"," ","0",".","9",","," ","\"","s","e","c","t","i","o","n","B","r","e","a","k",
      "d","o","w","n","\"",":"," ","[","{","\"","s","e","c","t","i","o","n","N","a","m","e",
      "\"",":"," ","\"","H","o","o","k","\"","}","]","}">>
Doc_note_first ==
    <<"{","\"","n","o","t","e","\"",":"," ","\"","W","o","w","!","\"",","," ","\"","t","a","i",
      "l","o","r","e","d","S","c","r","i","p","t","\"",":"," ","\"","B","u","y"," ","i","t",".",
      " ","N","o","w","\"",","," ","\"","x","\"",":"," ","[","\"","a","\\","\"","b","\"",",",
      " ","\"","c","\"","]","}">>
Doc_script_first ==
    <<"{","\"","t","a","i","l","o","r","e","d","S","c","r","i","p","t","\"",":"," ","\"","H",
      "e","l","l","o",".","\"",","," ","\"","b","\"",":"," ","\"","x","y","\"","}">>
Doc_other_key == <<"{","\"","s","c","r","i","p","t","\"",":"," ","\"","H","i",".","\"","}">>
Doc_array == <<"[","1",","," ","\"","a","\"","]">>
Doc_string == <<"\"","t","e","x","t","\"">>
Doc_number == <<"1","2">>
Doc_null == <<"n","u","l","l">>
Doc_empty_object == <<"{","}">>

Docs ==
    <<Doc_tailored, Doc_note_first, Doc_script_first, Doc_other_key, Doc_array,
      Doc_string, Doc_number, Doc_null, Doc_empty_object>>

Wraps == {"none", "space", "json_fence", "fence", "json_fence_open"}

\* the response text around the JSON text body
Wrap(wrap, body) ==
    CASE wrap = "none" -> body
      [] wrap = "space" -> <<" ", "\n">> \o body \o <<"\n", " ">>
      [] wrap = "json_fence" -> FenceJson \o <<"\n">> \o body \o <<"\n">> \o Fence
      [] wrap = "fence" -> Fence \o <<"\n">> \o body \o <<"\n">> \o Fence
      [] wrap = "json_fence_open" -> FenceJson \o <<"\n">> \o body

\* the JSON text of the response: the first cut characters of the document
Body(doc, cut) == SubSeq(Docs[doc], 1, cut)

\* the model answers: ai_response is the content of call_openai_api's result
ParseChoose ==
    /\ parse.pc = "idle"
    /\ \E doc \in 1..Len(Docs), wrap \in Wraps :
         \E cut \in 0..Len(Docs[doc]) :
           parse' = [pc |-> "chosen", doc |-> doc, cut |-> cut, wrap |-> wrap,
                     text |-> Wrap(wrap, Body(doc, cut)), result |-> NoParsed]
    /\ UNCHANGED <<fetch, classify, tailor, server, meta>>

\* parse_ai_response(ai_response) returns
ParseRun ==
    /\ parse.pc = "chosen"
    /\ parse' = [parse EXCEPT !.pc = "done", !.result = parse_ai_response(parse.text)]
    /\ UNCHANGED <<fetch, classify, tailor, server, meta>>

NextParse == ParseChoose \/ ParseRun

SpecParse == Init /\ [][NextParse]_vars

-----------------------------------------------------------------------------
(* Properties of parse_ai_response                                         *)

ParseDone == parse.pc = "done"

\* the JSON text inside the response that was parsed
ParsedBody == Body(parse.doc, parse.cut)

IsPrefix(a, b) == Len(a) <= Len(b) /\ SubSeq(b, 1, Len(a)) = a

\* the text ends inside a string that is the value of an object member: the
\* quote that opened it follows a colon
TruncatedInStringValue(text) ==
    LET scan == ScanQuotes(text) IN
    /\ scan.in_string
    /\ text[scan.last_valid_pos + 1] = ":"

\* an object with the entries of the tailoring result, each of its type
Conforming(v) ==
    /\ HasKey(v, N_tailoredScript) /\ Get(v, N_tailoredScript).t = "str"
    /\ HasKey(v, N_confidence) /\ Get(v, N_confidence).t = "num"
    /\ HasKey(v, N_sectionBreakdown) /\ Get(v, N_sectionBreakdown).t = "arr"
    /\ HasKey(v, N_sutherlandAlchemy) /\ Get(v, N_sutherlandAlchemy).t = "obj"
    /\ HasKey(v, N_hormoziValueStack) /\ Get(v, N_hormoziValueStack).t = "obj"

\* C7: a response that is valid JSON, bare or inside a code fence, comes back
\* as exactly what decoding the JSON text gives, and no repair step
\* (_fix_common_json_issues and what it calls) has run.
C7_ValidJsonDirect ==
    ParseDone /\ json_loads(ParsedBody).ok =>
        parse.result = Outcome3("direct", json_loads(ParsedBody).val, FALSE)

\* a whole document inside a json code fence was decoded directly
C7_Witness ==
    /\ ParseDone
    /\ parse.wrap = "json_fence"
    /\ parse.doc = 1 /\ parse.cut = Len(Docs[1])
    /\ parse.result.how = "direct"
    /\ Get(parse.result.value, N_tailoredScript) = JStr(<<"H","i","."," ","G","o"," ","n","o","w">>)

\* C8: a response that holds the "tailoredScript" key and is cut off inside
\* a string value comes back recovered (not as the fallback), with a
\* tailoredScript that is a prefix of the document's tailoredScript.
C8_TruncatedRecovered ==
    ( /\ ParseDone
      /\ Contains(ParsedBody, K_tailoredScript)
      /\ TruncatedInStringValue(ParsedBody) )
    => /\ parse.result.how = "recovered"
       /\ HasKey(parse.result.value, N_tailoredScript)
       /\ Get(parse.result.value, N_tailoredScript).t = "str"
       /\ IsPrefix(Get(parse.result.value, N_tailoredScript).s,
                   Get(json_loads(Docs[parse.doc]).val, N_tailoredScript).s)

C10_ConformingResult ==
    ParseDone => Conforming(parse.result.value)

-----------------------------------------------------------------------------
(* The state machine of one POST /api/ai-tailor-script request:            *)
(* ai_tailor_script awaits generate_tailored_script, which awaits          *)
(* call_openai_api, which runs client.chat.completions.create in a worker  *)
(* thread under asyncio.wait_for.                                          *)

Reply_head ==
    <<"{","\"","t","a","i","l","o","r","e","d","S","c","r","i","p","t","\"",":"," ","\"","B",
      "u","y"," ","n","o","w","."," ","I","t"," ","w","o","r","k","s","\"",","," ","\"","c","o",
      "n","f","i","d","e","n","c","e","\"",":"," ">>
Reply_tail ==
    <<","," ","\"","s","e","c","t","i","o","n","B","r","e","a","k","d","o","w","n","\"",":"," ",
      "[","]",","," ","\"","s","u","t","h","e","r","l","a","n","d","A","l","c","h","e","m","y",
      "\"",":"," ","{","\"","e","x","p","l","a","n","a","t","i","o","n","\"",":"," ","\"","e",
      "\"",","," ","\"","v","a","l","u","e","R","e","f","r","a","m","i","n","g","\"",":"," ",
      "[","]",","," ","\"","i","d","e","n","t","i","t","y","S","h","i","f","t","s","\"",":"," ",
      "[","\"","i","\"","]","}",","," ","\"","h","o","r","m","o","z","i","V","a","l","u","e",
      "S","t","a","c","k","\"",":"," ","{","\"","c","o","r","e","O","f","f","e","r","\"",":",
      " ","\"","c","\"",","," ","\"","v","a","l","u","e","E","l","e","m","e","n","t","s","\"",
      ":"," ","[","]",","," ","\"","t","o","t","a","l","S","t","a","c","k","\"",":"," ","{","}",
      ","," ","\"","g","r","a","n","d","S","l","a","m","E","l","e","m","e","n","t","s","\"",":",
      " ","[","]","}","}">>

Reply_sections ==
    <<","," ","\"","s","e","c","t","i","o","n","B","r","e","a","k","d","o","w","n","\"",":"," ",
      "[","{","\"","s","e","c","t","i","o","n","N","a","m","e","\"",":"," ","\"","H","o","o",
      "k","\"",","," ","\"","t","r","i","g","g","e","r","E","m","o","t","i","o","n","a","l","S",
      "t","a","t","e","\"",":"," ","\"","j","o","y","\"",","," ","\"","o","r","i","g","i","n",
      "a","l","Q","u","o","t","e","\"",":"," ","\"","o","\"",","," ","\"","r","e","w","r","i",
      "t","t","e","n","V","e","r","s","i","o","n","\"",":"," ","\"","r","\"",","," ","\"","s",
      "c","e","n","e","D","e","s","c","r","i","p","t","i","o","n","\"",":"," ","\"","d","\"",
      ","," ","\"","p","s","y","c","h","o","l","o","g","i","c","a","l","P","r","i","n","c","i",
      "p","l","e","s","\"",":"," ","[","\"","p","\"","]",","," ","\"","t","i","m","e","s","t",
      "a","m","p","\"",":"," ","\"","0",":","0","0","\"","}",","," ","{","\"","s","e","c","t",
      "i","o","n","N","a","m","e","\"",":"," ","\"","C","l","o","s","e","\"",","," ","\"","t",
      "r","i","g","g","e","r","E","m","o","t","i","o","n","a","l","S","t","a","t","e","\"",":",
      " ","\"","c","a","l","m","\"",","," ","\"","o","r","i","g","i","n","a","l","Q","u","o",
      "t","e","\"",":"," ","\"","o","\"",","," ","\"","r","e","w","r","i","t","t","e","n","V",
      "e","r","s","i","o","n","\"",":"," ","\"","r","\"",","," ","\"","s","c","e","n","e","D",
      "e","s","c","r","i","p","t","i","o","n","\"",":"," ","\"","d","\"",","," ","\"","p","s",
      "y","c","h","o","l","o","g","i","c","a","l","P","r","i","n","c","i","p","l","e","s","\"",
      ":"," ","[","]",","," ","\"","t","i","m","e","s","t","a","m","p","\"",":"," ","\"","0",
      ":","1","0","\"","}","]">>

\* a complete reply with two sections
Reply_with_sections ==
    Reply_head \o <<"0", ".", "9">> \o Reply_sections \o SubSeq(Reply_tail, 25, Len(Reply_tail))

\* a reply with the two nested blocks and neither confidence nor
\* sectionBreakdown
Reply_blocks_only == SubSeq(Reply_head, 1, 38) \o SubSeq(Reply_tail, 25, Len(Reply_tail))

\* the texts of the confidence entry of a complete reply
ConfidenceTexts ==
    {<<"0", ".", "9">>, <<"1", ".", "5">>, <<"-", "1">>, <<"1">>, <<"0">>,
     <<"2", "e", "-", "1">>, <<"\"", "h", "i", "g", "h", "\"">>, L_null, L_true}

\* what the model can answer: complete replies, a fenced one, replies cut
\* off by the token limit, JSON of another shape, the empty text, a reply
\* with sections and one without the optional entries
LlmContents ==
    {Reply_head \o c \o Reply_tail : c \in ConfidenceTexts}
    \cup {Wrap("json_fence", Reply_head \o <<"0", ".", "9">> \o Reply_tail),
          SubSeq(Doc_script_first, 1, Len(Doc_script_first) - 3),
          SubSeq(Doc_tailored, 1, 28),
          Doc_tailored, Doc_script_first, Doc_other_key, Doc_array, Doc_null, <<>>,
          Reply_with_sections, Reply_blocks_only}

\* the seconds a remote call that ends before the timeout can take
LlmDurations == {0, 7, 30, REQUEST_TIMEOUT - 1}

\* the remote failures of client.chat.completions.create
LlmErrors == {M_connection_error, M_rate_limit}

ApiReturn(content) == [kind |-> "return", content |-> content]

ApiRaise(msg) == [kind |-> "raise", msg |-> msg]

\* how client.chat.completions.create ends in its thread: with a message
\* content, with a None content, or raising
ThreadResults ==
    {[kind |-> "content", content |-> c] : c \in LlmContents}
    \cup {[kind |-> "none"]}
    \cup {[kind |-> "error", msg |-> m] : m \in LlmErrors}

\* call_openai_api once wait_for has handed over the thread's result
ApiFromThread(r) ==
    IF r.kind = "content" THEN ApiReturn(r.content)
    ELSE IF r.kind = "none" THEN ApiRaise(M_len_of_none)
    ELSE ApiRaise(r.msg)

\* call_openai_api when wait_for raises asyncio.TimeoutError
ApiTimeout == ApiRaise(M_timed_out)

\* a generate_tailored_script without its except branch
GenerateData_no_except(api, processing_time) ==
    IF api.kind = "raise"
    THEN [kind |-> "raised", msg |-> api.msg]
    ELSE AssembleData(parse_ai_response(api.content).value, processing_time)

\* generate_tailored_script once call_openai_api has returned or raised
GenerateData(api, processing_time) ==
    IF api.kind = "raise"
    THEN ErrorData(api.msg, processing_time)
    ELSE AssembleData(parse_ai_response(api.content).value, processing_time)

\* ai_tailor_script: the response built from what generate_tailored_script
\* returned, or the HTTPException(500) of its except branch
EndpointResponse(data) ==
    IF data.kind = "raised"
    THEN [status_code |-> 500, success |-> FALSE, code |-> "AI_PROCESSING_ERROR",
          data |-> NoData]
    ELSE [status_code |-> 200, success |-> TRUE, code |-> "", data |-> data]

\* asyncio.to_thread starts client.chat.completions.create
StartLlmCall(t) ==
    [t EXCEPT !.pc = "awaiting", !.llm_calls = @ + 1, !.thread = "running"]

\* the handler returns: data is what generate_tailored_script produced
Respond(t, api, data) ==
    [t EXCEPT !.pc = "responded", !.api = api, !.data = data,
              !.response = EndpointResponse(data)]

\* a call_openai_api that starts the remote call again after a failure
Finish_retry_on_failure(t, api, elapsed) ==
    IF api.kind = "raise" /\ t.llm_calls < 3
    THEN StartLlmCall([t EXCEPT !.elapsed = @ + elapsed])
    ELSE Respond([t EXCEPT !.elapsed = @ + elapsed], api, GenerateData(api, t.elapsed + elapsed))

\* call_openai_api has returned or raised after elapsed seconds: the rest of
\* generate_tailored_script and of ai_tailor_script
Finish(t, api, elapsed) ==
    Respond([t EXCEPT !.elapsed = @ + elapsed], api, GenerateData(api, t.elapsed + elapsed))

\* an abandoned call whose late result is handed to the request after all
ThreadEnds_delivered(t, r) ==
    Respond([t EXCEPT !.thread = "finished", !.thread_result = r],
            ApiFromThread(r), GenerateData(ApiFromThread(r), t.elapsed))

\* the worker thread ends with r
ThreadEnds(t, r) == [t EXCEPT !.thread = "finished", !.thread_result = r]

\* a client posts to /api/ai-tailor-script; the handler runs up to the await
\* of wait_for in call_openai_api
TailorRequest ==
    /\ tailor.pc = "idle"
    /\ tailor' = StartLlmCall([tailor EXCEPT !.api_calls = @ + 1])
    /\ UNCHANGED <<fetch, classify, parse, server, meta>>

\* the remote call ends within the timeout
TailorLlmEnds ==
    /\ tailor.pc = "awaiting"
    /\ \E r \in ThreadResults, elapsed \in LlmDurations :
           tailor' = Finish(ThreadEnds(tailor, r), ApiFromThread(r), elapsed)
    /\ UNCHANGED <<fetch, classify, parse, server, meta>>

\* the timeout fires first: wait_for cancels the await and raises TimeoutError,
\* the thread runs on
TailorLlmTimeout ==
    /\ tailor.pc = "awaiting"
    /\ tailor' = Finish(tailor, ApiTimeout, REQUEST_TIMEOUT)
    /\ UNCHANGED <<fetch, classify, parse, server, meta>>

\* the thread of an abandoned call ends
TailorThreadEnds ==
    /\ tailor.pc = "responded"
    /\ tailor.thread = "running"
    /\ \E r \in ThreadResults : tailor' = ThreadEnds(tailor, r)
    /\ UNCHANGED <<fetch, classify, parse, server, meta>>

NextTailor == TailorRequest \/ TailorLlmEnds \/ TailorLlmTimeout \/ TailorThreadEnds

SpecTailor == Init /\ [][NextTailor]_vars


\* ---------------------------------------------------------------------------
\* Claims about a failed or unusual script generation
\* ---------------------------------------------------------------------------

TailorDone == tailor.pc = "responded"

\* call_openai_api raised: by TimeoutError of wait_for or by any other failure
ApiFailed == TailorDone /\ tailor.api.kind = "raise"

\* C11: whenever call_openai_api fails, by timeout or by any other remote
\* failure, generate_tailored_script does not raise and returns a fully
\* populated AITailoringData with confidence 0.0, a tailoredScript that begins
\* with 'Error', an empty sectionBreakdown and placeholder blocks whose
\* collections are empty
C11_FailureGivesErrorData ==
    ApiFailed =>
        /\ tailor.data.kind = "error"
        /\ tailor.data.confidence = [num |-> 0, den |-> 1]
        /\ IsPrefix(T_Error, tailor.data.tailoredScript)
        /\ tailor.data.tailoredScript = T_error_generating \o tailor.api.msg
        /\ tailor.data.wordCount = 0
        /\ tailor.data.sectionBreakdown = JArr(<<>>)
        /\ ValidSutherlandAlchemy(tailor.data.sutherlandAlchemy)
        /\ Get(tailor.data.sutherlandAlchemy, N_valueReframing) = JArr(<<>>)
        /\ Get(tailor.data.sutherlandAlchemy, N_identityShifts) = JArr(<<>>)
        /\ ValidHormoziValueStack(tailor.data.hormoziValueStack)
        /\ Get(tailor.data.hormoziValueStack, N_valueElements) = JArr(<<>>)
        /\ Get(tailor.data.hormoziValueStack, N_totalStack) = JObj(<<>>, <<>>)
        /\ Get(tailor.data.hormoziValueStack, N_grandSlamElements) = JArr(<<>>)

\* the call timed out and the error result was returned
C11_Witness ==
    /\ ApiFailed
    /\ tailor.api.msg = M_timed_out
    /\ tailor.elapsed = REQUEST_TIMEOUT
    /\ tailor.data.kind = "error"

\* C12: when script generation fails (LLM timeout or remote error), the
\* response of POST /api/ai-tailor-script carries an outer failure status,
\* success false or a 500 with a structured error body; it never reports
\* success = true for a failed generation
C12_FailureSignalledOutside ==
    ApiFailed =>
        \/ tailor.response.success = FALSE
        \/ tailor.response.status_code = 500 /\ tailor.response.code = "AI_PROCESSING_ERROR"

\* wait_for gave up: the handler answered when the budget had run out
TimedOut == TailorDone /\ tailor.elapsed = REQUEST_TIMEOUT

\* C18: when the LLM call exceeds the timeout budget, call_openai_api fails
\* with a timeout error that carries the configured budget value, no partial
\* result is returned, and what the abandoned call produces later is
\* discarded: it reaches no caller and changes nothing of the result that was
\* returned
C18_TimeoutAbandonsCall ==
    TimedOut =>
        /\ tailor.api = ApiRaise(M_timed_out)
        /\ Contains(tailor.api.msg, IntToStr(REQUEST_TIMEOUT))
        /\ tailor.data = ErrorData(M_timed_out, REQUEST_TIMEOUT)
        /\ tailor.response.data = tailor.data
        /\ tailor.api_calls = 1

\* the abandoned call ended with a complete reply after the handler answered
C18_Witness ==
    /\ TimedOut
    /\ tailor.thread = "finished"
    /\ tailor.thread_result.kind = "content"
    /\ tailor.thread_result.content = Reply_head \o <<"0", ".", "9">> \o Reply_tail
    /\ tailor.data.kind = "error"

\* C19: each invocation of call_openai_api starts the remote LLM call exactly
\* once and each invocation of generate_tailored_script invokes
\* call_openai_api exactly once: after a timeout or a remote failure no
\* second LLM call is made for the request
C19_OneLlmCall ==
    tailor.pc # "idle" => tailor.api_calls = 1 /\ tailor.llm_calls = 1

\* the remote call failed and the handler answered after that one call
C19_Witness ==
    /\ ApiFailed
    /\ tailor.api.msg = M_connection_error
    /\ tailor.llm_calls = 1
    /\ tailor.thread = "finished"

\* C20: every AITailoringData returned by generate_tailored_script, for any
\* LLM output and any failure, has confidence within [0,1] and a non-negative
\* processingTime and wordCount
C20_DataWithinRanges ==
    TailorDone =>
        /\ tailor.data.confidence.den > 0
        /\ 0 <= tailor.data.confidence.num
        /\ tailor.data.confidence.num <= tailor.data.confidence.den
        /\ tailor.data.processingTime >= 0
        /\ tailor.data.wordCount >= 0

-----------------------------------------------------------------------------
(* POST /transcribe: the requests on the event loop and the shared CACHE   *)

\* the cache expiry in seconds
CACHE_TTL == 86400

\* _hash_url: the SHA-256 digest of the URL, taken to be free of collisions
hash_url(url) == [sha256 |-> url]

Url_youtube == Scheme_https \o Host_youtube \o Path_watch

Url_instagram == Scheme_https \o Host_instagram \o Path_one

Url_vimeo == Scheme_https \o Host_vimeo \o Path_one

\* the url lists a client posts
Batches ==
    {<<Url_youtube>>, <<Url_youtube, Url_youtube>>, <<Url_instagram, Url_youtube>>,
     <<Url_vimeo, Url_youtube>>}

\* how supadata.transcript answers a call of a request
ServerOutcomes ==
    {Outcome("content", "en", "hello world", "", <<>>),
     Outcome("job", "", "", "job-1", <<>>),
     Outcome("SupadataError", "", "", "", Msg_rate_limited)}

\* the lang, text and mode a client posts with its urls.  The server hands
\* them to the provider and reads none of them, so the first request posts
\* the defaults and the later ones the same or other values
RequestParams(r) ==
    IF r = 1 THEN {DefaultParams}
    ELSE {DefaultParams, [lang |-> "es", text |-> FALSE, mode |-> "native"]}

\* the seconds a provider call takes
CallSeconds == {1}

\* the seconds that pass while the server has nothing to run
Gaps == {CACHE_TTL - 2, CACHE_TTL}

\* the number of such gaps in a behaviour
MaxGaps == 1

\* CACHE[key] = entry
CacheSet(cache, key, entry) ==
    [k \in DOMAIN cache \cup {key} |-> IF k = key THEN entry ELSE cache[k]]

\* del CACHE[key]
CacheDel(cache, key) == [k \in DOMAIN cache \ {key} |-> cache[k]]

\* the clock at the latest CACHE[key] = ... of the log
LastStore(stores, key) ==
    stores[CHOOSE n \in 1..Len(stores) :
               /\ stores[n].key = key
               /\ \A m \in (n + 1)..Len(stores) : stores[m].key # key]

\* a lookup that also asks for the lang, text and mode of the request that
\* stored the entry
Fresh_same_params(s, r, key) ==
    /\ key \in DOMAIN s.CACHE
    /\ s.req[r].now - s.CACHE[key].timestamp < CACHE_TTL
    /\ s.req[LastStore(s.stores, key).writer].params = s.req[r].params

\* key in CACHE and now - entry["timestamp"] < CACHE_TTL
Fresh(s, r, key) ==
    /\ key \in DOMAIN s.CACHE
    /\ s.req[r].now - s.CACHE[key].timestamp < CACHE_TTL

\* results.append(result), and the loop moves to the next url
Appended(s, r, result) ==
    [s EXCEPT !.req[r].results = Append(@, result), !.req[r].i = @ + 1]

\* a cached branch that continues without appending the cached result
ServeCached_not_appended(s, r, key) ==
    [s EXCEPT !.req[r].i = @ + 1]

\* results.append(entry["result"]); continue.  served notes the age of the
\* entry at this moment, counted from the clock at which it was stored
ServeCached(s, r, key) ==
    Appended([s EXCEPT !.req[r].served =
                  Append(@, [i |-> s.req[r].i,
                             age |-> s.clock - LastStore(s.stores, key).at])],
             r, s.CACHE[key].result)

\* a lookup that leaves an expired entry in CACHE
Expire_not_removed(s, key) == s

\* the else branch of the TTL test, when the key is in CACHE
Expire(s, key) ==
    IF key \in DOMAIN s.CACHE THEN [s EXCEPT !.CACHE = CacheDel(@, key)] ELSE s

\* a transcribe that saves every result
StoreResult_any_status(s, r, key, result) ==
    [s EXCEPT !.CACHE = CacheSet(@, key, [result |-> result, timestamp |-> s.req[r].now]),
              !.stores = Append(@, [key |-> key, writer |-> r, at |-> s.clock,
                                    result |-> result])]

\* CACHE[key] = {"result": result, "timestamp": now} for a success or a
\* processing result; stores is the log of these assignments
StoreResult(s, r, key, result) ==
    IF result.status \in {"success", "processing"}
    THEN [s EXCEPT !.CACHE = CacheSet(@, key, [result |-> result,
                                              timestamp |-> s.req[r].now]),
                   !.stores = Append(@, [key |-> key, writer |-> r, at |-> s.clock,
                                         result |-> result])]
    ELSE s

\* _transcribe_with_retry returned result for the current url
AfterFetch(s, r, result) ==
    Appended(StoreResult(s, r, hash_url(s.req[r].urls[s.req[r].i]), result), r, result)

RECURSIVE NextUrl(_, _)

\* an asyncio.sleep that is a time.sleep: the event loop thread stays taken
Suspend_blocking(s, r, f) ==
    [s EXCEPT !.req[r].fetch = f, !.req[r].pc = "sleeping",
              !.req[r].wake_at = s.clock + f.wait_time, !.running = r]

\* await asyncio.sleep(wait_time): the coroutine is suspended and the event
\* loop thread is free
Suspend(s, r, f) ==
    [s EXCEPT !.req[r].fetch = f, !.req[r].pc = "sleeping",
              !.req[r].wake_at = s.clock + f.wait_time, !.running = 0]

\* supadata.transcript(...) is called on the event loop thread
CallProvider(s, r, f) ==
    [s EXCEPT !.req[r].fetch = f, !.req[r].pc = "calling", !.running = r]

\* the request runs on from f, the state of its fetch, to its next await,
\* to its next provider call or to its return
Continue(s, r, f) ==
    IF f.pc = "sleep" THEN Suspend(s, r, f)
    ELSE IF f.pc = "call" THEN CallProvider(s, r, f)
    ELSE NextUrl(AfterFetch([s EXCEPT !.req[r].fetch = f], r, f.result), r)

\* the body of the for loop for url, from the cache test on
AtUrl(s, r, url, key) ==
    IF Fresh(s, r, key)
    THEN NextUrl(ServeCached(s, r, key), r)
    ELSE Continue(Expire(s, key), r, Invoke(url, DefaultMaxRetries))

\* for url in data.urls, from the url at index i on, and the return
NextUrl(s, r) ==
    IF s.req[r].i > Len(s.req[r].urls)
    THEN [s EXCEPT !.req[r].pc = "done", !.running = 0]
    ELSE AtUrl(s, r, s.req[r].urls[s.req[r].i], hash_url(s.req[r].urls[s.req[r].i]))

\* results = [], now = time.time()
Started(s, r, urls, params) ==
    [s EXCEPT !.req[r] = [IdleRequest EXCEPT !.pc = "running", !.urls = urls,
                                             !.params = params, !.now = s.clock, !.i = 1],
              !.running = r]

\* no coroutine is running on the event loop thread
LoopFree == server.running = 0

\* the event loop can start the coroutine of a request r that was posted.
\* The requests are numbered in the order in which they start
CanStart(r) ==
    /\ server.req[r].pc = "idle"
    /\ \A q \in Reqs : q < r => server.req[q].pc # "idle"
    /\ LoopFree

\* the event loop can resume the coroutine of r from its sleep
CanWake(r) == server.req[r].pc = "sleeping" /\ LoopFree

\* a client posts urls to /transcribe: the coroutine is started when the
\* event loop thread is free and runs to its first await, provider call or
\* return
ServerRequest(r) ==
    /\ CanStart(r)
    /\ \E urls \in Batches, params \in RequestParams(r) :
           server' = NextUrl(Started(server, r, urls, params), r)
    /\ UNCHANGED <<fetch, classify, parse, tailor, meta>>

\* supadata.transcript(...) answers after d seconds, during which the event
\* loop thread was inside the call
ServerCallReturns(r) ==
    /\ server.req[r].pc = "calling"
    /\ \E o \in ServerOutcomes, d \in CallSeconds :
           server' = Continue([server EXCEPT !.clock = @ + d], r,
                              Attempt(server.req[r].fetch, o))
    /\ UNCHANGED <<fetch, classify, parse, tailor, meta>>

\* asyncio.sleep(wait_time) completes, no earlier than wait_time seconds after
\* it began, and the event loop resumes the coroutine
ServerWake(r) ==
    /\ CanWake(r)
    /\ server' = Continue([server EXCEPT !.clock = Max(@, server.req[r].wake_at)], r,
                          AfterSleep(server.req[r].fetch))
    /\ UNCHANGED <<fetch, classify, parse, tailor, meta>>

\* time passes while the event loop has nothing to run
ServerTimePasses ==
    /\ LoopFree
    /\ \A r \in Reqs : server.req[r].pc \in {"idle", "done"}
    /\ DOMAIN server.CACHE # {}
    /\ server.gaps < MaxGaps
    /\ \E g \in Gaps : server' = [server EXCEPT !.clock = @ + g, !.gaps = @ + 1]
    /\ UNCHANGED <<fetch, classify, parse, tailor, meta>>

NextServer ==
    \/ \E r \in Reqs : ServerRequest(r)
    \/ \E r \in Reqs : ServerCallReturns(r)
    \/ \E r \in Reqs : ServerWake(r)
    \/ ServerTimePasses

SpecServer == Init /\ [][NextServer]_vars

-----------------------------------------------------------------------------
(* Claims about POST /transcribe and the cache under concurrent requests   *)

\* C13: a /transcribe request never serves a cached outcome whose age at the
\* moment of the lookup is greater than the TTL (86400 s), for every URL of a
\* batch, however long the fetches of earlier URLs of the batch took
C13_NoStaleServed ==
    \A r \in Reqs :
        \A n \in 1..Len(server.req[r].served) :
            server.req[r].served[n].age <= CACHE_TTL

\* the transcribe coroutine of r has been started
Active(r) == server.req[r].pc # "idle"

\* C14: for every /transcribe request the results list holds exactly one
\* outcome per input URL (duplicates included) in input order, and the URLs
\* are processed strictly sequentially: no provider call for a later URL
\* starts before the outcome of every earlier URL has been determined
C14_OneOutcomePerUrlInOrder ==
    \A r \in Reqs :
        Active(r) =>
            /\ Len(server.req[r].results) = server.req[r].i - 1
            /\ \A n \in 1..Len(server.req[r].results) :
                   server.req[r].results[n].url = server.req[r].urls[n]
            /\ server.req[r].pc = "done" =>
                   Len(server.req[r].results) = Len(server.req[r].urls)
            /\ server.req[r].pc \in {"calling", "sleeping"} =>
                   /\ server.req[r].fetch.url = server.req[r].urls[server.req[r].i]
                   /\ server.req[r].i <= Len(server.req[r].urls)

\* a request for the same URL twice has answered: the first outcome fetched,
\* the second served from the cache
C14_Witness ==
    \E r \in Reqs :
        /\ server.req[r].pc = "done"
        /\ server.req[r].urls = <<Url_youtube, Url_youtube>>
        /\ Len(server.req[r].results) = 2
        /\ Len(server.req[r].served) = 1
        /\ server.req[r].fetch.calls = 2

\* a provider call of r is in flight
InProviderCall(r) == server.req[r].pc = "calling"

\* C15: the blocking remote calls are offloaded so that the scheduler is not
\* stalled: while a transcription provider call of one request is in flight,
\* the event loop can still run steps of other requests, starting a request
\* that was posted and resuming one whose sleep is over
C15_LoopNotStalledByCall ==
    \A r \in Reqs, q \in Reqs :
        InProviderCall(r) /\ q # r =>
            /\ server.req[q].pc = "sleeping" => CanWake(q)
            /\ server.req[q].pc = "idle" => CanStart(q)

\* the fetch of r is in a backoff sleep
Sleeping(r) == server.req[r].pc = "sleeping"

\* C16: every backoff sleep of the retry loop yields control to the
\* scheduler: while one URL's fetch is sleeping, other requests (their
\* fetches and cache operations included) can make progress, and the sleeping
\* fetch holds neither the event loop nor anything else that blocks them
C16_SleepYields ==
    \A r \in Reqs :
        Sleeping(r) =>
            /\ server.running # r
            /\ \A q \in Reqs \ {r} :
                   (\A p \in Reqs : ~InProviderCall(p)) =>
                       /\ Sleeping(q) => CanWake(q)
                       /\ server.req[q].pc = "idle" => CanStart(q)

\* request 2 was started, fetched, wrote to the cache and answered, all
\* while the fetch of request 1 was backing off
C16_Witness ==
    /\ Sleeping(1)
    /\ server.req[1].fetch.calls = 1
    /\ server.req[2].pc = "done"
    /\ server.req[2].fetch.calls >= 1
    /\ \E n \in 1..Len(server.stores) : server.stores[n].writer = 2

\* C17: under any interleaving of concurrent /transcribe requests the shared
\* cache stays consistent: every entry holds a success or a processing
\* outcome whose URL hashes to the entry's key, and where requests for the
\* same URL both fetched and stored, the entry is the last writer's
C17_CacheConsistent ==
    \A key \in DOMAIN server.CACHE :
        /\ server.CACHE[key].result.status \in {"success", "processing"}
        /\ hash_url(server.CACHE[key].result.url) = key
        /\ \E n \in 1..Len(server.stores) : server.stores[n].key = key
        /\ server.CACHE[key].result = LastStore(server.stores, key).result
        /\ server.CACHE[key].timestamp =
               server.req[LastStore(server.stores, key).writer].now

\* both requests fetched the same uncached URL, request 2 while the fetch of
\* request 1 was backing off; request 2 stored first, request 1 after it with
\* another outcome, and the entry is the one of request 1
C17_Witness ==
    /\ Len(server.stores) = 2
    /\ server.stores[1].key = hash_url(Url_youtube)
    /\ server.stores[2].key = hash_url(Url_youtube)
    /\ server.stores[1].writer = 2
    /\ server.stores[2].writer = 1
    /\ server.stores[1].result # server.stores[2].result
    /\ server.CACHE[hash_url(Url_youtube)].result = server.stores[2].result

\* the structure parse_ai_response returned to generate_tailored_script
ParsedReply == parse_ai_response(tailor.api.content).value

\* call_openai_api returned and the parsed structure is an object with a
\* tailoredScript text
Assembled ==
    /\ TailorDone
    /\ tailor.api.kind = "return"
    /\ ParsedReply.t = "obj"
    /\ HasKey(ParsedReply, N_tailoredScript)
    /\ IsStr(Get(ParsedReply, N_tailoredScript))

OptionalFields == {N_confidence, N_sectionBreakdown, N_sutherlandAlchemy, N_hormoziValueStack}

\* C21: when the parsed LLM structure lacks any of the optional fields
\* confidence, sectionBreakdown, sutherlandAlchemy or hormoziValueStack,
\* result assembly still succeeds: the result keeps the parsed tailoredScript
\* and its metadata and carries the empty value of each absent field
C21_AbsentFieldsDefaulted ==
    (Assembled /\ \E k \in OptionalFields : ~HasKey(ParsedReply, k)) =>
        /\ tailor.data.kind = "tailored"
        /\ tailor.data.tailoredScript = Get(ParsedReply, N_tailoredScript).s
        /\ tailor.data.wordCount = WordCount(Get(ParsedReply, N_tailoredScript).s)
        /\ ~HasKey(ParsedReply, N_sectionBreakdown) =>
               tailor.data.sectionBreakdown = JArr(<<>>)

\* the result was assembled by the try block without an exception
AssembledResult == Assembled /\ tailor.data.kind = "tailored"

\* the sections of the parsed response
ParsedSections == GetOr(ParsedReply, N_sectionBreakdown, JArr(<<>>)).vs

\* the number of maximal runs of non-whitespace characters of s, counted at
\* their last characters
TokenCount(s) ==
    Cardinality({i \in 1..Len(s) :
        s[i] \notin PyWhitespace /\ (i = Len(s) \/ s[i + 1] \in PyWhitespace)})

\* C22: for every result assembled from a parsed LLM response, wordCount is
\* the number of whitespace-separated tokens of its tailoredScript,
\* estimatedReadTime is the rendering of that count at 150 words per minute,
\* and sectionBreakdown has as many sections as the parsed response
C22_MetadataOfScript ==
    AssembledResult =>
        /\ tailor.data.tailoredScript = Get(ParsedReply, N_tailoredScript).s
        /\ tailor.data.wordCount = TokenCount(tailor.data.tailoredScript)
        /\ tailor.data.estimatedReadTime =
               IntToStr((tailor.data.wordCount * 60) \div 150) \o <<"s">>
        /\ Len(tailor.data.sectionBreakdown.vs) = Len(ParsedSections)

\* a reply with a script of four words and two sections was assembled
C22_Witness ==
    /\ AssembledResult
    /\ tailor.data.wordCount = 4
    /\ tailor.data.estimatedReadTime = <<"1", "s">>
    /\ Len(tailor.data.sectionBreakdown.vs) = 2

-----------------------------------------------------------------------------
(* calculate_metadata on scripts of a chosen number of words               *)

\* the largest number of words of the scripts that grow by one word
MaxWords == 310

\* word counts around ten minutes, where the minutes take two digits
LongWordCounts == {1492, 1493, 1500}

\* what stands between two words of a script
Separators == {<<" ">>, <<" ", "\n">>}

\* a script of n words with sep between them
ScriptOf(n, sep) ==
    IF n = 0 THEN sep
    ELSE [i \in 1..(n + (n - 1) * Len(sep)) |->
              IF (i - 1) % (1 + Len(sep)) = 0 THEN "w"
              ELSE sep[(i - 1) % (1 + Len(sep))]]

\* a caller picks the tailored script
MetaChoose ==
    /\ meta.pc = "idle"
    /\ \E n \in (0..MaxWords) \cup LongWordCounts, sep \in Separators :
           meta' = [meta EXCEPT !.pc = "chosen", !.words = n,
                                !.tailored_script = ScriptOf(n, sep)]
    /\ UNCHANGED <<fetch, classify, parse, tailor, server>>

\* calculate_metadata(tailored_script, original_transcript, processing_time)
MetaRun ==
    /\ meta.pc = "chosen"
    /\ meta' = [meta EXCEPT !.pc = "done",
                            !.result = calculate_metadata(meta.tailored_script,
                                                          <<"a", " ", "b">>, 0)]
    /\ UNCHANGED <<fetch, classify, parse, tailor, server>>

NextMeta == MetaChoose \/ MetaRun

SpecMeta == Init /\ [][NextMeta]_vars

MetaDone == meta.pc = "done"

\* the text before the suffix of a rendered read time
ReadTimeValue == SubSeq(meta.result.estimatedReadTime, 1, Len(meta.result.estimatedReadTime) - 1)

ReadTimeSuffix == meta.result.estimatedReadTime[Len(meta.result.estimatedReadTime)]

\* text is digits, a point and one digit, and the number of tenths it
\* denotes is the nearest one to w / 150 minutes
IsMinutesOf(text, w) ==
    /\ Len(text) >= 3
    /\ text[Len(text) - 1] = "."
    /\ \A i \in (1..Len(text)) \ {Len(text) - 1} : text[i] \in Digits
    /\ text[1] # "0" \/ Len(text) = 3
    /\ LET tenths == DigitsValue(SubSeq(text, 1, Len(text) - 2)) * 10
                     + DigitValue(text[Len(text)])
       IN  /\ 2 * (10 * w - 150 * tenths) <= 150
           /\ 2 * (150 * tenths - 10 * w) <= 150

\* C23: calculate_metadata renders the read time as whole seconds with
\* suffix s exactly when the word count w is below 150, the value being
\* floor(w*60/150) and therefore at most 59, and as minutes with one decimal
\* and suffix m exactly when w is 150 or more; 150 words give 1.0m and 149
\* words give 59s
C23_ReadTimeRendering ==
    MetaDone =>
        /\ meta.result.wordCount = meta.words
        /\ ReadTimeSuffix = "s" <=> meta.words < 150
        /\ ReadTimeSuffix = "m" <=> meta.words >= 150
        /\ meta.words < 150 =>
               /\ ReadTimeValue = IntToStr((meta.words * 60) \div 150)
               /\ DigitsValue(ReadTimeValue) <= 59
        /\ meta.words >= 150 => IsMinutesOf(ReadTimeValue, meta.words)
        /\ meta.words = 150 => meta.result.estimatedReadTime = <<"1", ".", "0", "m">>
        /\ meta.words = 149 => meta.result.estimatedReadTime = <<"5", "9", "s">>

\* the metadata of a script of exactly 150 words
C23_Witness ==
    /\ MetaDone
    /\ meta.words = 150
    /\ meta.result.wordCount = 150
    /\ meta.result.estimatedReadTime = <<"1", ".", "0", "m">>

-----------------------------------------------------------------------------
(* Further claims about _transcribe_with_retry                             *)

\* the recommendation an error result carries: the details of the
\* unsupported result, the platform_recommendation of the others
RecommendationOf(result) ==
    IF result.error.code = "PLATFORM_NOT_SUPPORTED"
    THEN result.error.details
    ELSE result.error.platform_recommendation

\* C24: every error outcome returned by _transcribe_with_retry, whatever its
\* code, carries the static recommendation text of the platform that
\* _detect_platform returned for the URL
C24_ErrorCarriesRecommendation ==
    (Returned /\ IsError(fetch.result)) =>
        /\ RecommendationOf(fetch.result) = detect_platform(fetch.url).recommendation
        /\ RecommendationOf(fetch.result) # ""
        /\ fetch.result.platform = detect_platform(fetch.url).platform

\* the retries of a TikTok URL ran out and the error carries TikTok's text
C24_Witness ==
    /\ Returned /\ IsError(fetch.result)
    /\ ErrorCode(fetch.result) = "TRANSCRIPTION_FAILED"
    /\ fetch.platform_info.platform = "TikTok"
    /\ fetch.result.error.platform_recommendation = TikTokInfo.recommendation

\* C25: when the final allowed attempt fails with a retryable provider error
\* (429, 400 or 500), _transcribe_with_retry returns TRANSCRIPTION_FAILED
\* instead of sleeping: no backoff sleep follows the final attempt's
\* failure, so every backoff sleep of a fetch is followed by another
\* provider call
C25_NoSleepAfterFinalAttempt ==
    (Returned /\ ErrorCode(fetch.result) = "TRANSCRIPTION_FAILED") =>
        /\ fetch.calls = fetch.max_retries
        /\ Len(fetch.sleeps) = fetch.calls - 1

\* C26: the backoff requested after the k-th attempt (1-indexed) of a fetch
\* depends only on k and on the failure class of that attempt: 5*2^(k-1)
\* seconds for a rate-limit error (429), 2*2^(k-1) seconds for a bad-request
\* or server error (400/500, not 429); each rate-limit backoff is twice the
\* previous one
C26_BackoffSchedule ==
    /\ Len(fetch.sleeps) <= Len(fetch.log)
    /\ \A k \in 1..Len(fetch.sleeps) :
           /\ IsRateLimit(fetch.log[k]) => fetch.sleeps[k] = 5 * 2^(k - 1)
           /\ IsBadRequestOrServerError(fetch.log[k]) => fetch.sleeps[k] = 2 * 2^(k - 1)
           /\ (k > 1 /\ IsRateLimit(fetch.log[k]) /\ IsRateLimit(fetch.log[k - 1]))
                  => fetch.sleeps[k] = 2 * fetch.sleeps[k - 1]

\* a low reliability platform that is rate-limited on every attempt
C26_Witness ==
    /\ Returned
    /\ fetch.platform_info.reliability = "low"
    /\ fetch.max_retries = 5
    /\ \A k \in 1..Len(fetch.log) : IsRateLimit(fetch.log[k])
    /\ fetch.sleeps = <<5, 10, 20, 40, 80>>

\* the k-th attempt raised an exception that is not a SupadataError
RaisedOther(k) == fetch.log[k].kind = "Exception"

\* C27: when the k-th attempt (1-indexed) raises an exception that is not a
\* typed provider error, then if k is not the final allowed attempt the
\* fetcher sleeps 2^(k-1) seconds and makes another provider call, and if k
\* is the final allowed attempt it returns UNEXPECTED_ERROR without sleeping
C27_UnexpectedException ==
    \A k \in 1..Len(fetch.log) :
        RaisedOther(k) =>
            /\ k < fetch.max_retries =>
                   /\ Len(fetch.sleeps) >= k
                   /\ fetch.sleeps[k] = 2^(k - 1)
                   /\ Returned => Len(fetch.log) > k
                   /\ (fetch.pc = "sleep" /\ Len(fetch.log) = k) =>
                          AfterSleep(fetch).pc = "call"
            /\ k = fetch.max_retries =>
                   /\ Returned
                   /\ ErrorCode(fetch.result) = "UNEXPECTED_ERROR"
                   /\ Len(fetch.sleeps) = k - 1
            /\ k <= fetch.max_retries

\* three attempts that all raised: two sleeps, then UNEXPECTED_ERROR
C27_Witness ==
    /\ Returned
    /\ fetch.max_retries = 3
    /\ Len(fetch.log) = 3
    /\ \A k \in 1..3 : RaisedOther(k)
    /\ fetch.sleeps = <<1, 2>>
    /\ ErrorCode(fetch.result) = "UNEXPECTED_ERROR"

\* the fetch was invoked as the /transcribe endpoint invokes it, without a
\* max_retries argument
FromEndpoint == fetch.pc # "idle" /\ fetch.arg_max_retries = DefaultMaxRetries

\* C28: no execution of _transcribe_with_retry reached through the
\* /transcribe endpoint (budget 3, or 5 for low reliability platforms)
\* returns UNKNOWN_ERROR: for every sequence of provider outcomes the retry
\* loop is left through a return inside the loop
C28_NoUnknownErrorFromEndpoint ==
    FromEndpoint =>
        /\ fetch.max_retries = IF fetch.platform_info.reliability = "low" THEN 5 ELSE 3
        /\ fetch.attempt < fetch.max_retries
        /\ Returned => ErrorCode(fetch.result) # "UNKNOWN_ERROR"
        /\ (Returned /\ fetch.platform_info.supported) => fetch.calls >= 1

\* the last iteration of an endpoint fetch returned from inside the loop
C28_Witness ==
    /\ FromEndpoint
    /\ Returned
    /\ fetch.calls = 3
    /\ fetch.attempt = 2
    /\ ErrorCode(fetch.result) = "TRANSCRIPTION_FAILED"

\* ---------------------------------------------------------------------
\* Tagging of recovered structures (src/ai_service.py 162-175)
\* ---------------------------------------------------------------------

\* the decode of the complete document the parsed text was cut from
FullDocument == json_loads(Docs[parse.doc]).val

\* the value carries an improvement-area flag the document did not state
AddedImprovementArea(value, full) ==
    /\ HasKey(value, N_improvementAreas)
    /\ Get(value, N_improvementAreas).t = "arr"
    /\ \E p \in 1..Len(Get(value, N_improvementAreas).vs) :
         \/ ~HasKey(full, N_improvementAreas)
         \/ Get(full, N_improvementAreas).t # "arr"
         \/ \A q \in 1..Len(Get(full, N_improvementAreas).vs) :
              Get(full, N_improvementAreas).vs[q] # Get(value, N_improvementAreas).vs[p]

\* the value carries a confidence other than the one the document stated
ChangedConfidence(value, full) ==
    /\ HasKey(value, N_confidence)
    /\ ~HasKey(full, N_confidence) \/ Get(full, N_confidence) # Get(value, N_confidence)

Tagged(value, full) == AddedImprovementArea(value, full) \/ ChangedConfidence(value, full)

\* C29 as stated: a structure obtained by repair (first decode failed, decode
\* of the repaired text succeeded) carries a recovery tag, a changed
\* confidence or an added improvement-area flag, and so differs from what
\* the complete document decodes to.
C29_RecoveredIsTagged ==
    (ParseDone /\ parse.result.how = "recovered") =>
        /\ Tagged(parse.result.value, FullDocument)
        /\ parse.result.value # FullDocument

\* ---------------------------------------------------------------------
\* Brace/bracket balancing (src/ai_service.py 203-215)
\* ---------------------------------------------------------------------

Closers == {"}", "]"}

\* the parsed text is a valid document without some or all of its trailing
\* closing braces and brackets
MissingOnlyClosers ==
    /\ json_loads(Docs[parse.doc]).ok
    /\ parse.cut < Len(Docs[parse.doc])
    /\ \A p \in (parse.cut + 1)..Len(Docs[parse.doc]) : Docs[parse.doc][p] \in Closers

\* C30 as stated: a text with the "tailoredScript" key, no unterminated
\* string, that is valid JSON but for missing trailing closing braces and
\* brackets at any nesting, is completed by the balancing step, decodes at
\* the second attempt and comes back as the recovered document, not as the
\* fallback.
C30_MissingClosersRecovered ==
    ( /\ ParseDone
      /\ Contains(ParsedBody, K_tailoredScript)
      /\ ~ScanQuotes(ParsedBody).in_string
      /\ MissingOnlyClosers )
    => /\ parse.result.how = "recovered"
       /\ parse.result.value = FullDocument

-----------------------------------------------------------------------------
(* Claims about what POST /transcribe writes to the cache                  *)

\* the key of the n-th url of request r
KeyOf(r, n) == hash_url(server.req[r].urls[n])

\* the n-th outcome of request r is an Error
ErrorAt(r, n) == n <= Len(server.req[r].results) /\ IsError(server.req[r].results[n])

\* C31 as stated: in the step in which the fetch of a request for a URL ends
\* in an Error, the cache is left without an entry for that URL
C31_NoEntryAfterError ==
    [][ \A r \in Reqs :
            \A n \in (Len(server.req[r].results) + 1)..Len(server'.req[r].results) :
                IsError(server'.req[r].results[n]) =>
                    hash_url(server'.req[r].urls[n]) \notin DOMAIN server'.CACHE
      ]_vars

\* C31: an Error outcome is never stored.  Every assignment to the cache is
\* of a success or a processing outcome under the hash of its URL, and in the
\* step in which a request appends an Error for a URL nothing is stored under
\* that URL's key: the key is then absent from the cache (an expired entry
\* having been deleted at the lookup), unless another request stored an entry
\* for the URL after this request began
C31_ErrorNotStored ==
    [][ /\ \A m \in 1..Len(server'.stores) :
             /\ server'.stores[m].result.status \in {"success", "processing"}
             /\ server'.stores[m].key = hash_url(server'.stores[m].result.url)
        /\ \A r \in Reqs :
             \A n \in (Len(server.req[r].results) + 1)..Len(server'.req[r].results) :
                 IsError(server'.req[r].results[n]) =>
                     /\ \A m \in (Len(server.stores) + 1)..Len(server'.stores) :
                            server'.stores[m].key # hash_url(server'.req[r].urls[n])
                     /\ hash_url(server'.req[r].urls[n]) \in DOMAIN server'.CACHE =>
                            /\ LastStore(server'.stores, hash_url(server'.req[r].urls[n])).writer # r
                            /\ LastStore(server'.stores, hash_url(server'.req[r].urls[n])).at
                                   >= server'.req[r].now
      ]_vars

\* request 1 cached an outcome for the URL; after the TTL request 2 found the
\* entry expired, deleted it, fetched, and answered with an Error after
\* three provider calls: the cache is empty
C31_Witness ==
    /\ server.req[1].pc = "done"
    /\ server.req[2].pc = "done"
    /\ server.req[2].urls = <<Url_youtube>>
    /\ Len(server.stores) = 1
    /\ server.stores[1].key = hash_url(Url_youtube)
    /\ ErrorAt(2, 1)
    /\ server.req[2].fetch.calls = 3
    /\ server.CACHE = EmptyCache

\* request r goes from the lookup of its current url to the fetch in this step
BeginsFetch(r) ==
    /\ server'.req[r].pc = "calling"
    /\ server'.req[r].fetch.calls = 0
    /\ server'.req[r] # server.req[r]

\* the key of the url request r is at after this step
CurrentKey(r) == hash_url(server'.req[r].urls[server'.req[r].i])

\* C32: the cache lookup depends on the URL alone.  Whatever lang, text and
\* mode a request carries: an outcome it takes from the cache is the success
\* or processing outcome last stored under the hash of the URL; it goes on to
\* the fetch of a URL only when the cache held no entry for the URL or an
\* entry as old as the TTL against the request's now; and it makes no
\* provider call for a URL it served from the cache
C32_LookupByUrlAlone ==
    [][ \A r \in Reqs :
          /\ \A n \in (Len(server.req[r].served) + 1)..Len(server'.req[r].served) :
                 /\ server'.req[r].results[server'.req[r].served[n].i] =
                        LastStore(server'.stores,
                            hash_url(server'.req[r].urls[server'.req[r].served[n].i])).result
                 /\ server'.req[r].results[server'.req[r].served[n].i].status
                        \in {"success", "processing"}
                 /\ server'.req[r].results[server'.req[r].served[n].i].url =
                        server'.req[r].urls[server'.req[r].served[n].i]
          /\ BeginsFetch(r) =>
                 /\ \A m \in (Len(server.stores) + 1)..Len(server'.stores) :
                        server'.stores[m].key # CurrentKey(r)
                 /\ CurrentKey(r) \in DOMAIN server.CACHE =>
                        server'.req[r].now - server.CACHE[CurrentKey(r)].timestamp >= CACHE_TTL
          /\ server'.req[r].pc = "calling" =>
                 \A n \in 1..Len(server'.req[r].served) :
                     server'.req[r].served[n].i # server'.req[r].i
      ]_vars

\* request 1 posted the URL with the defaults and stored the Queued outcome
\* of the provider; request 2 posted the same URL with another lang, text and
\* mode within the TTL and answered with that outcome, no provider call made
C32_Witness ==
    /\ server.req[2].pc = "done"
    /\ server.req[2].urls = <<Url_youtube>>
    /\ server.req[2].params # server.req[1].params
    /\ server.gaps = 1
    /\ Len(server.req[2].served) = 1
    /\ server.req[2].fetch.calls = 0
    /\ IsProcessing(server.req[2].results[1])
    /\ Len(server.stores) = 1
    /\ server.stores[1].writer = 1
    /\ server.req[2].results[1] = server.stores[1].result

-----------------------------------------------------------------------------
(* Claims about the attempt budget of one fetch                            *)

\* every attempt of the budget has been made and the fetch has returned
BudgetExhausted == Returned /\ fetch.max_retries >= 1 /\ fetch.calls = fetch.max_retries

\* the provider outcome of the final attempt
FinalOutcome == fetch.log[fetch.calls]

\* a provider error the handler retries: rate limit, bad request, server error
IsRetryableProviderError(o) == IsRateLimit(o) \/ IsBadRequestOrServerError(o)

\* C33: all failure classes consume the same attempt budget, each failed
\* attempt of any class counting for one; and when the budget is exhausted,
\* after whatever mix of failures, the error code is that of the final
\* attempt's failure alone, TRANSCRIPTION_FAILED for a retryable provider
\* error and UNEXPECTED_ERROR for an untyped exception, with the final
\* attempt's message in details
C33_FinalAttemptDecides ==
    /\ fetch.pc \in {"sleep", "returned"} /\ fetch.calls >= 1 => fetch.attempt = fetch.calls - 1
    /\ fetch.pc = "call" => fetch.attempt = fetch.calls
    /\ fetch.calls <= fetch.max_retries \/ fetch.calls = 0
    /\ \A k \in 1..(fetch.calls - 1) :
           fetch.log[k].kind \in {"SupadataError", "Exception"}
    /\ BudgetExhausted =>
           /\ IsRetryableProviderError(FinalOutcome) =>
                  /\ ErrorCode(fetch.result) = "TRANSCRIPTION_FAILED"
                  /\ fetch.result.error.details = FinalOutcome.msg
           /\ FinalOutcome.kind = "Exception" =>
                  /\ ErrorCode(fetch.result) = "UNEXPECTED_ERROR"
                  /\ fetch.result.error.details = FinalOutcome.msg

\* an untyped exception, a bad request and a server error used up a budget of
\* three: TRANSCRIPTION_FAILED with the message of the server error
C33_Witness ==
    /\ BudgetExhausted
    /\ fetch.max_retries = 3
    /\ fetch.log[1].kind = "Exception"
    /\ fetch.log[2] = Outcome("SupadataError", "", "", "", Msg_bad_request)
    /\ fetch.log[3] = Outcome("SupadataError", "", "", "", Msg_server_error)
    /\ ErrorCode(fetch.result) = "TRANSCRIPTION_FAILED"
    /\ fetch.result.error.details = Msg_server_error
    /\ fetch.sleeps = <<1, 4, 8>>

\* one fetch in which every provider call answers or raises and every
\* asyncio.sleep completes
SpecFetchCompletes == Spec /\ WF_vars(FetchAttempt) /\ WF_vars(FetchWake)

\* _transcribe_with_retry has been invoked
Invoked == fetch.pc # "idle"

\* C34: every invocation of _transcribe_with_retry eventually returns an
\* outcome, provided each provider call and each sleep completes: each failed
\* attempt that is retried moves the attempt counter up by one, the counter
\* never moves down, and the number of sleeps of the fetch never exceeds its
\* budget
C34_FetchTerminates ==
    /\ Invoked ~> Returned
    /\ [](Len(fetch.sleeps) <= fetch.max_retries \/ Len(fetch.sleeps) = 0)
    /\ [](Invoked => fetch.attempt <= fetch.max_retries)
    /\ [][ /\ fetch'.attempt >= fetch.attempt
           /\ (fetch.pc = "sleep" /\ fetch'.pc = "call") => fetch'.attempt = fetch.attempt + 1
           /\ fetch.pc = "call" => fetch'.calls = fetch.calls + 1
           /\ fetch.pc = "returned" => fetch' = fetch ]_vars

\* a fetch with a budget of five returned after five failed attempts and
\* five sleeps
C34_Witness ==
    /\ Returned
    /\ fetch.max_retries = 5
    /\ fetch.calls = 5
    /\ Len(fetch.sleeps) = 5
    /\ fetch.attempt = 4

-----------------------------------------------------------------------------
(* Claims about the character scan of _fix_unterminated_strings            *)

\* the text parse_ai_response hands to the repair: the response cleaned
CleanedText == CleanResponse(parse.text)

\* the quote at k follows an odd run of backslashes: a backslash escape eats it
ConsumedQuote(text, k) == text[k] = "\"" /\ Escaped(text, 1, k)

\* the positions of the double quotes of text that no backslash escape eats
FreeQuotes(text) == {k \in 1..Len(text) : text[k] = "\"" /\ ~Escaped(text, 1, k)}

\* in_string after the scan of the first k characters of text
InStringAfter(text, k) == ScanQuotes(SubSeq(text, 1, k)).in_string

\* the three statements of C35 for one text
ScanParity(text) ==
    /\ ScanQuotes(text).in_string <=> Cardinality(FreeQuotes(text)) % 2 = 1
    /\ ~ScanQuotes(text).in_string => fix_unterminated_strings(text) = text
    /\ \A k \in 1..Len(text) :
           ConsumedQuote(text, k) => InStringAfter(text, k) = InStringAfter(text, k - 1)

\* C35: the character scan of _fix_unterminated_strings ends inside a string
\* exactly when the text holds an odd number of double quotes that no
\* preceding backslash escape consumes; when it ends outside a string the
\* function returns its input unchanged; and a backslash-escaped quote never
\* toggles the inside-string state
C35_ScanQuoteParity == ParseDone => ScanParity(CleanedText)

\* the repair ran on a text that holds an escaped quote inside a string and
\* is cut off in that string: the scan ended inside it
C35_Witness ==
    /\ ParseDone
    /\ parse.result.repaired
    /\ \E k \in 1..Len(CleanedText) :
           ConsumedQuote(CleanedText, k) /\ InStringAfter(CleanedText, k - 1)
    /\ ScanQuotes(CleanedText).in_string
    /\ Cardinality(FreeQuotes(CleanedText)) = 11

====
